---- MODULE Spec2Model ----
(***************************************************************************)
(* A model of the CSS-basics autograder src/grade.cjs.                     *)
(*                                                                         *)
(* Text is a sequence of one-character strings, so that the regular        *)
(* expressions and string methods of the script are modelled by what they  *)
(* do to the characters.  Numbers that the script holds as IEEE doubles    *)
(* are exact rationals <<numerator, denominator>> here (see Frac below).   *)
(***************************************************************************)
EXTENDS Integers, Sequences, FiniteSets, TLC

(***************************************************************************)
(* Characters                                                              *)
(***************************************************************************)
LowerLetters ==
    {"a", "b", "c", "d", "e", "f", "g", "h", "i", "j", "k", "l", "m",
     "n", "o", "p", "q", "r", "s", "t", "u", "v", "w", "x", "y", "z"}

UpperLetters ==
    {"A", "B", "C", "D", "E", "F", "G", "H", "I", "J", "K", "L", "M",
     "N", "O", "P", "Q", "R", "S", "T", "U", "V", "W", "X", "Y", "Z"}

Digits == {"0", "1", "2", "3", "4", "5", "6", "7", "8", "9"}

\* \s of a JavaScript regular expression (the members that occur in the model)
WsChars == {" ", "\n", "\t"}

\* \w of a JavaScript regular expression: [A-Za-z0-9_]
WordChars == LowerLetters \cup UpperLetters \cup Digits \cup {"_"}

UpperToLower ==
    [c \in UpperLetters |->
        CASE c = "A" -> "a" [] c = "B" -> "b" [] c = "C" -> "c" [] c = "D" -> "d"
          [] c = "E" -> "e" [] c = "F" -> "f" [] c = "G" -> "g" [] c = "H" -> "h"
          [] c = "I" -> "i" [] c = "J" -> "j" [] c = "K" -> "k" [] c = "L" -> "l"
          [] c = "M" -> "m" [] c = "N" -> "n" [] c = "O" -> "o" [] c = "P" -> "p"
          [] c = "Q" -> "q" [] c = "R" -> "r" [] c = "S" -> "s" [] c = "T" -> "t"
          [] c = "U" -> "u" [] c = "V" -> "v" [] c = "W" -> "w" [] c = "X" -> "x"
          [] c = "Y" -> "y" [] c = "Z" -> "z"]

LowerChar(c) == IF c \in UpperLetters THEN UpperToLower[c] ELSE c

(***************************************************************************)
(* String methods                                                          *)
(***************************************************************************)
\* String.prototype.toLowerCase
toLowerCase(s) == [i \in 1..Len(s) |-> LowerChar(s[i])]

\* the least member of a non-empty set of numbers
Least(S) == CHOOSE x \in S : \A y \in S : x <= y

\* the characters of s at the positions where keep holds, in order
KeepWhere(s, keep(_)) ==
    LET tagged == [i \in 1..Len(s) |-> <<s[i], keep(i)>>]
        kept == SelectSeq(tagged, LAMBDA t : t[2])
    IN  [i \in 1..Len(kept) |-> kept[i][1]]

\* s.replace(/\s+/g, " "): every maximal run of whitespace becomes one space
collapseWs(s) ==
    LET spaced == [i \in 1..Len(s) |-> IF s[i] \in WsChars THEN " " ELSE s[i]]
    IN  KeepWhere(spaced, LAMBDA i : ~(s[i] \in WsChars /\ i > 1 /\ s[i - 1] \in WsChars))

\* s.replace(/\s+/g, ""): every whitespace character is removed
removeWs(s) == SelectSeq(s, LAMBDA c : c \notin WsChars)

\* String.prototype.trim
trim(s) ==
    LET inked == {i \in 1..Len(s) : s[i] \notin WsChars}
    IN  IF inked = {} THEN <<>>
        ELSE SubSeq(s, Least(inked), Least({i \in inked : \A j \in inked : j <= i}))

\* the text t occurs in s starting at position i
OccursAt(s, t, i) ==
    /\ i >= 1
    /\ i + Len(t) - 1 <= Len(s)
    /\ \A k \in 1..Len(t) : s[i + k - 1] = t[k]

\* String.prototype.includes
includes(s, t) == \E i \in 1..(Len(s) + 1) : OccursAt(s, t, i)

\* least j >= i with s[j] = c, or 0
IndexOfFrom(s, c, i) ==
    LET at == {j \in i..Len(s) : s[j] = c}
    IN  IF at = {} THEN 0 ELSE Least(at)

\* String.prototype.split with a one-character separator: always at least
\* one piece, empty pieces kept
RECURSIVE SplitFrom(_, _, _)
SplitFrom(s, sep, i) ==
    LET j == IndexOfFrom(s, sep, i)
    IN  IF j = 0 THEN <<SubSeq(s, i, Len(s))>>
        ELSE <<SubSeq(s, i, j - 1)>> \o SplitFrom(s, sep, j + 1)

split(s, sep) == SplitFrom(s, sep, 1)

(***************************************************************************)
(* CSS parsing helpers                                                     *)
(***************************************************************************)
\* least j >= i at which the two characters a, b stand, or 0
PairFrom(css, a, b, i) ==
    LET at == {j \in i..(Len(css) - 1) : css[j] = a /\ css[j + 1] = b}
    IN  IF at = {} THEN 0 ELSE Least(at)

\* css.replace(/\/\*[\s\S]*?\*\//g, ""): each "/*" up to the nearest "*/" is
\* removed; a "/*" that is never closed stays
RECURSIVE StripFrom(_, _)
StripFrom(css, i) ==
    LET open == PairFrom(css, "/", "*", i)
        close == IF open = 0 THEN 0 ELSE PairFrom(css, "*", "/", open + 2)
    IN  IF close = 0 THEN SubSeq(css, i, Len(css))
        ELSE SubSeq(css, i, open - 1) \o StripFrom(css, close + 2)

stripCssComments(css) == StripFrom(css, 1)

compactWs(s) == trim(collapseWs(s))

\* empty only when nothing at all is left
isEmptyCssNothingLeft(css) == Len(compactWs(stripCssComments(css))) < 1

isEmptyCss(css) == Len(compactWs(stripCssComments(css))) < 10

\* the selector normalized without the change of case
normalizeSelectorKeepCase(s) == trim(collapseWs(s))

normalizeSelector(s) == trim(collapseWs(toLowerCase(s)))

normalizeDecls(s) == trim(collapseWs(toLowerCase(s)))

\* the selector list with its empty pieces kept
selectorListKeepEmpty(selectorRaw) ==
    LET pieces == split(selectorRaw, ",")
    IN  [n \in 1..Len(pieces) |-> normalizeSelector(pieces[n])]

\* selectorRaw.split(",").map((x) => normalizeSelector(x)).filter(Boolean)
selectorList(selectorRaw) ==
    LET pieces == split(selectorRaw, ",")
    IN  SelectSeq([n \in 1..Len(pieces) |-> normalizeSelector(pieces[n])],
                  LAMBDA x : x # <<>>)

\* least j >= i with css[j] a brace, or Len(css) + 1
NextBrace(css, i) ==
    LET at == {j \in i..Len(css) : css[j] \in {"{", "}"}}
    IN  IF at = {} THEN Len(css) + 1 ELSE Least(at)

\* least j >= i with css[j] no brace, or Len(css) + 1
NextNonBrace(css, i) ==
    LET at == {j \in i..Len(css) : css[j] \notin {"{", "}"}}
    IN  IF at = {} THEN Len(css) + 1 ELSE Least(at)

\* the rules one match of the block pattern yields: one per selector piece
RulesOfBlock(selectorRaw, declRaw) ==
    LET sels == selectorList(selectorRaw)
    IN  [k \in 1..Len(sels) |->
            [selector |-> sels[k], decls |-> normalizeDecls(declRaw)]]

\* the block pattern with a brace-free body, /([^{}]+)\{([^{}]*)\}/g
RECURSIVE ExecFromBraceFreeBody(_, _)
ExecFromBraceFreeBody(css, start) ==
    LET i == NextNonBrace(css, start)
        j == NextBrace(css, i)
        k == NextBrace(css, j + 1)
    IN  IF i > Len(css) \/ j > Len(css) THEN <<>>
        ELSE IF css[j] = "}" THEN ExecFromBraceFreeBody(css, j + 1)
        ELSE IF k > Len(css) THEN <<>>
        ELSE IF css[k] = "{" THEN ExecFromBraceFreeBody(css, j + 1)
        ELSE RulesOfBlock(SubSeq(css, i, j - 1), SubSeq(css, j + 1, k - 1))
                 \o ExecFromBraceFreeBody(css, k + 1)

\* The loop "while ((m = re.exec(css)) !== null)" with
\* re = /([^{}]+)\{([^}]*)\}/g, scanning from position start (re.lastIndex).
\* A match starts at the first non-brace character from which the maximal
\* brace-free run is followed by "{" and a later "}"; group 1 is that run,
\* group 2 everything up to the first "}" (it may hold "{").
RECURSIVE ExecFrom(_, _)
ExecFrom(css, start) ==
    LET i == NextNonBrace(css, start)
        j == NextBrace(css, i)
        k == IF j <= Len(css) /\ css[j] = "{" THEN IndexOfFrom(css, "}", j + 1) ELSE 0
    IN  IF i > Len(css) \/ j > Len(css) THEN <<>>
        ELSE IF css[j] = "}" THEN ExecFrom(css, j + 1)
        ELSE IF k = 0 THEN <<>>
        ELSE RulesOfBlock(SubSeq(css, i, j - 1), SubSeq(css, j + 1, k - 1))
                 \o ExecFrom(css, k + 1)

\* the array of rules living on from one call to the next
rulesKeptAcrossCalls(left) == left

\* const rules = []: a call starts from an empty array of its own, whatever
\* rules an earlier call left behind
rulesAtEntry(left) == <<>>

parseCssRules(cssText) == ExecFrom(stripCssComments(cssText), 1)

(***************************************************************************)
(* Names the task table uses                                               *)
(***************************************************************************)
\* property names
PropColor == <<"c", "o", "l", "o", "r">>

PropFontSize == <<"f", "o", "n", "t", "-", "s", "i", "z", "e">>

PropFont == <<"f", "o", "n", "t">>

PropFontFamily == <<"f", "o", "n", "t", "-", "f", "a", "m", "i", "l", "y">>

PropFontWeight == <<"f", "o", "n", "t", "-", "w", "e", "i", "g", "h", "t">>

PropBackgroundColor == <<"b", "a", "c", "k", "g", "r", "o", "u", "n", "d", "-", "c", "o", "l", "o", "r">>

PropBackground == <<"b", "a", "c", "k", "g", "r", "o", "u", "n", "d">>

PropPadding == <<"p", "a", "d", "d", "i", "n", "g">>

PropPaddingTop == <<"p", "a", "d", "d", "i", "n", "g", "-", "t", "o", "p">>

PropPaddingRight == <<"p", "a", "d", "d", "i", "n", "g", "-", "r", "i", "g", "h", "t">>

PropPaddingBottom == <<"p", "a", "d", "d", "i", "n", "g", "-", "b", "o", "t", "t", "o", "m">>

PropPaddingLeft == <<"p", "a", "d", "d", "i", "n", "g", "-", "l", "e", "f", "t">>

PropTextDecoration == <<"t", "e", "x", "t", "-", "d", "e", "c", "o", "r", "a", "t", "i", "o", "n">>

PropTextDecorationLine == <<"t", "e", "x", "t", "-", "d", "e", "c", "o", "r", "a", "t", "i", "o", "n", "-", "l", "i", "n", "e">>

PropTextDecorationStyle == <<"t", "e", "x", "t", "-", "d", "e", "c", "o", "r", "a", "t", "i", "o", "n", "-", "s", "t", "y", "l", "e">>

PropTextDecorationThickness == <<"t", "e", "x", "t", "-", "d", "e", "c", "o", "r", "a", "t", "i", "o", "n", "-", "t", "h", "i", "c", "k", "n", "e", "s", "s">>

PropBoxSizing == <<"b", "o", "x", "-", "s", "i", "z", "i", "n", "g">>

\* selector texts of the task table
SelP == <<"p">>

SelSpan == <<"s", "p", "a", "n">>

SelUsername == <<".", "u", "s", "e", "r", "n", "a", "m", "e">>

SelBlueText == <<".", "b", "l", "u", "e", "-", "t", "e", "x", "t">>

SelRedText == <<".", "r", "e", "d", "-", "t", "e", "x", "t">>

SelHighlight == <<".", "h", "i", "g", "h", "l", "i", "g", "h", "t">>

SelFeaturedUser == <<"#", "f", "e", "a", "t", "u", "r", "e", "d", "-", "u", "s", "e", "r">>

SelWinner == <<".", "w", "i", "n", "n", "e", "r">>

SelSpecificityTest == <<"#", "s", "p", "e", "c", "i", "f", "i", "c", "i", "t", "y", "-", "t", "e", "s", "t">>

SelPWinner == <<"p", ".", "w", "i", "n", "n", "e", "r">>

SelImportantTest == <<".", "i", "m", "p", "o", "r", "t", "a", "n", "t", "-", "t", "e", "s", "t">>

SelChatContainer == <<".", "c", "h", "a", "t", "-", "c", "o", "n", "t", "a", "i", "n", "e", "r">>

SelMessage == <<".", "m", "e", "s", "s", "a", "g", "e">>

SelMessageTime == <<".", "m", "e", "s", "s", "a", "g", "e", "-", "t", "i", "m", "e">>

sendHover == <<".", "s", "e", "n", "d", "-", "b", "u", "t", "t", "o", "n", ":", "h", "o", "v", "e", "r">>

linkHover == <<".", "c", "h", "a", "t", "-", "l", "i", "n", "k", ":", "h", "o", "v", "e", "r">>

s4 == <<"h", "4", ".", "t", "r", "e", "n", "d", "i", "n", "g", "-", "t", "a", "g">>

s5 == <<"h", "5", ".", "t", "r", "e", "n", "d", "i", "n", "g", "-", "t", "a", "g">>

s6 == <<"h", "6", ".", "t", "r", "e", "n", "d", "i", "n", "g", "-", "t", "a", "g">>

SelStar == <<"*">>

ImportantMarker == <<"!", "i", "m", "p", "o", "r", "t", "a", "n", "t">>

(***************************************************************************)
(* Property predicate layer                                                *)
(***************************************************************************)
\* \b at position k of d: exactly one of d[k-1], d[k] is a word character
\* (a position outside the text counts as a non-word character)
WordBoundaryAt(d, k) ==
    (k > 1 /\ d[k - 1] \in WordChars) # (k <= Len(d) /\ d[k] \in WordChars)

\* the first position at or after i that holds no whitespace (\s* is greedy,
\* and the colon that must follow is no whitespace)
SkipWs(d, i) ==
    LET at == {j \in i..Len(d) : d[j] \notin WsChars}
    IN  IF at = {} THEN Len(d) + 1 ELSE Least(at)

\* the text p occurs in d at position k, letter case ignored (the "i" flag)
OccursAtIgnoreCase(d, p, k) ==
    /\ k + Len(p) - 1 <= Len(d)
    /\ \A m \in 1..Len(p) : LowerChar(d[k + m - 1]) = LowerChar(p[m])

\* the property name only where a declaration starts: (^|[;\s])p\s*:
RegExpPropTestAtDeclarationStart(p, decls) ==
    \E k \in 1..Len(decls) :
        /\ k = 1 \/ decls[k - 1] \in WsChars \cup {";"}
        /\ OccursAtIgnoreCase(decls, p, k)
        /\ LET c == SkipWs(decls, k + Len(p))
           IN  c <= Len(decls) /\ decls[c] = ":"

\* the pattern without its leading \b
RegExpPropTestNoBoundary(p, decls) ==
    \E k \in 1..Len(decls) :
        /\ OccursAtIgnoreCase(decls, p, k)
        /\ LET c == SkipWs(decls, k + Len(p))
           IN  c <= Len(decls) /\ decls[c] = ":"

\* new RegExp(`\\b${escapeRegExp(p)}\\s*:`, "i").test(decls); escapeRegExp
\* makes every character of p stand for itself
RegExpPropTest(p, decls) ==
    \E k \in 1..Len(decls) :
        /\ WordBoundaryAt(decls, k)
        /\ OccursAtIgnoreCase(decls, p, k)
        /\ LET c == SkipWs(decls, k + Len(p))
           IN  c <= Len(decls) /\ decls[c] = ":"

declsHasAnyProperty(decls, propNames) ==
    \E n \in 1..Len(propNames) : RegExpPropTest(propNames[n], decls)

declsHasAllProperties(decls, propNames) ==
    \A n \in 1..Len(propNames) : RegExpPropTest(propNames[n], decls)

\* Selector matchers.  The script passes a string, a RegExp or a function:
\*   [kind |-> "string", text |-> t]              the string t
\*   [kind |-> "regexp", left |-> l, right |-> r] /^l\s+r$/i, l and r literal
\*   [kind |-> "function", text |-> t]            sel.replace(/\s+/g, "") === t
StringMatcher(t) == [kind |-> "string", text |-> t]

DescendantRe(l, r) == [kind |-> "regexp", left |-> l, right |-> r, text |-> <<>>]

SquashedMatcher(t) == [kind |-> "function", text |-> t]

\* /^l\s+r$/i.test(sel)
DescendantReTest(l, r, sel) ==
    /\ Len(sel) > Len(l) + Len(r)
    /\ OccursAtIgnoreCase(sel, l, 1)
    /\ OccursAtIgnoreCase(sel, r, Len(sel) - Len(r) + 1)
    /\ \A k \in (Len(l) + 1)..(Len(sel) - Len(r)) : sel[k] \in WsChars

\* the test findMatchingRules applies to a rule's selector; a string matcher
\* is normalized once, before the rules are filtered
MatcherTarget(selectorMatcher) ==
    IF selectorMatcher.kind = "string"
    THEN normalizeSelector(selectorMatcher.text)
    ELSE selectorMatcher.text

SelectorMatches(selector, selectorMatcher, target) ==
    CASE selectorMatcher.kind = "string" -> selector = target
      [] selectorMatcher.kind = "regexp" ->
            DescendantReTest(selectorMatcher.left, selectorMatcher.right, selector)
      [] selectorMatcher.kind = "function" -> removeWs(selector) = target
      [] OTHER -> FALSE

findMatchingRules(rules, selectorMatcher) ==
    LET target == MatcherTarget(selectorMatcher)
    IN  SelectSeq(rules, LAMBDA r : SelectorMatches(r.selector, selectorMatcher, target))

\* a requirement content: { anyProps = [], allProps = [], mustInclude = [] }
Requirement(any, all, inc) == [anyProps |-> any, allProps |-> all, mustInclude |-> inc]

AnyOf(props) == Requirement(props, <<>>, <<>>)

okAll(d, want) ==
    IF Len(want.allProps) # 0 THEN declsHasAllProperties(d, want.allProps) ELSE TRUE

okAny(d, want) ==
    IF Len(want.anyProps) # 0 THEN declsHasAnyProperty(d, want.anyProps) ELSE TRUE

\* the substrings never looked for
okIncludeSkipped(d, want) == TRUE

okInclude(d, want) ==
    IF Len(want.mustInclude) # 0
    THEN \A n \in 1..Len(want.mustInclude) :
             includes(d, toLowerCase(want.mustInclude[n]))
    ELSE TRUE

\* the sub-conditions met by possibly different matching rules
ruleSatisfiesAcrossRules(rules, selectorMatcher, want) ==
    LET matches == findMatchingRules(rules, selectorMatcher)
    IN  /\ \E n \in 1..Len(matches) : okAll(matches[n].decls, want)
        /\ \E n \in 1..Len(matches) : okAny(matches[n].decls, want)
        /\ \E n \in 1..Len(matches) : okInclude(matches[n].decls, want)

\* the rules of every selector looked at, not only the matching ones
ruleSatisfiesAnySelector(rules, selectorMatcher, want) ==
    \E n \in 1..Len(rules) :
        /\ okAll(rules[n].decls, want)
        /\ okAny(rules[n].decls, want)
        /\ okInclude(rules[n].decls, want)

ruleSatisfies(rules, selectorMatcher, want) ==
    LET matches == findMatchingRules(rules, selectorMatcher)
    IN  IF Len(matches) = 0 THEN FALSE
        ELSE \E n \in 1..Len(matches) :
                 /\ okAll(matches[n].decls, want)
                 /\ okAny(matches[n].decls, want)
                 /\ okInclude(matches[n].decls, want)

\* the table without the shorthand alternatives
RELATEDWithoutShorthand ==
    [color          |-> <<PropColor>>,
     fontSize       |-> <<PropFontSize>>,
     fontFamily     |-> <<PropFontFamily>>,
     fontWeight     |-> <<PropFontWeight>>,
     background     |-> <<PropBackgroundColor>>,
     padding        |-> <<PropPadding>>,
     textDecoration |-> <<PropTextDecoration>>,
     boxSizing      |-> <<PropBoxSizing>>]

\* Treat related CSS properties as acceptable alternatives
RELATED ==
    [color          |-> <<PropColor>>,
     fontSize       |-> <<PropFontSize, PropFont>>,
     fontFamily     |-> <<PropFontFamily, PropFont>>,
     fontWeight     |-> <<PropFontWeight, PropFont>>,
     background     |-> <<PropBackgroundColor, PropBackground>>,
     padding        |-> <<PropPadding, PropPaddingTop, PropPaddingRight,
                          PropPaddingBottom, PropPaddingLeft>>,
     textDecoration |-> <<PropTextDecoration, PropTextDecorationLine,
                          PropTextDecorationStyle, PropTextDecorationThickness>>,
     boxSizing      |-> <<PropBoxSizing>>]

(***************************************************************************)
(* Git helpers: latest student commit time                                 *)
(***************************************************************************)
\* Times.  A millisecond count does not fit the integers of TLC, so it is
\* held as whole seconds plus milliseconds: [s |-> seconds, ms |-> 0..999].
\* known = FALSE is JavaScript's null.
TimeMs(seconds, millis) == [known |-> TRUE, s |-> seconds, ms |-> millis]

Null == [known |-> FALSE, s |-> 0, ms |-> 0]

\* a > b on millisecond counts
MsGreater(a, b) == a.s > b.s \/ (a.s = b.s /\ a.ms > b.ms)

\* a >= b on millisecond counts
MsGreaterOrEqual(a, b) == a.s > b.s \/ (a.s = b.s /\ a.ms >= b.ms)

\* JavaScript truthiness of a value that is null or a number
Truthy(t) == t.known /\ ~(t.s = 0 /\ t.ms = 0)

\* Date.parse("2025-09-15T23:59:00+03:00") / 1000
DUE_EPOCH_SECONDS == 1757969940

DUE_EPOCH_MS == TimeMs(DUE_EPOCH_SECONDS, 0)

\* Number(ct) of a %ct field: a finite number of seconds, or NaN
Seconds(n) == [finite |-> TRUE, v |-> n]

NaN == [finite |-> FALSE, v |-> 0]

\* One line of "git log --format=%ct|%an|%ae|%cn|%ce|%s" is a record of its
\* fields.  The output of the command is the sequence of the lines, newest
\* first; Unavailable is a command that fails (execSync throws).
Commit(ct, an, ae, cn, ce, subject) ==
    [ct |-> ct, an |-> an, ae |-> ae, cn |-> cn, ce |-> ce, subject |-> subject]

Unavailable == [ok |-> FALSE, lines |-> <<>>]

GitLog(lines) == [ok |-> TRUE, lines |-> lines]

MarkerBot == <<"[", "b", "o", "t", "]">>

MarkerGithubActions == <<"g", "i", "t", "h", "u", "b", "-", "a", "c", "t", "i", "o", "n", "s">>

MarkerActionsEmail == <<"a", "c", "t", "i", "o", "n", "s", "@", "g", "i", "t", "h", "u", "b", ".", "c", "o", "m">>

MarkerClassroom == <<"g", "i", "t", "h", "u", "b", " ", "c", "l", "a", "s", "s", "r", "o", "o", "m">>

MarkerClassroomBot == <<"c", "l", "a", "s", "s", "r", "o", "o", "m", "[", "b", "o", "t", "]">>

MarkerDependabot == <<"d", "e", "p", "e", "n", "d", "a", "b", "o", "t">>

MarkerAutograding == <<"a", "u", "t", "o", "g", "r", "a", "d", "i", "n", "g">>

MarkerWorkflow == <<"w", "o", "r", "k", "f", "l", "o", "w">>

StudentName == <<"Z", "e", "y", "d">>

StudentEmail == <<"z", "@", "k", "f", "u", "p", "m", ".", "s", "a">>

BotName == <<"g", "i", "t", "h", "u", "b", "-", "a", "c", "t", "i", "o", "n", "s", "[", "b", "o", "t", "]">>

BotEmail == <<"a", "c", "t", "i", "o", "n", "s", "@", "g", "i", "t", "h", "u", "b", ".", "c", "o", "m">>

SubjectStyles == <<"A", "d", "d", " ", "s", "t", "y", "l", "e", "s">>

SubjectWorkflow == <<"F", "i", "x", " ", "W", "o", "r", "k", "f", "l", "o", "w">>

BotMarkers ==
    <<MarkerBot, MarkerGithubActions, MarkerActionsEmail, MarkerClassroom,
      MarkerClassroomBot, MarkerDependabot, MarkerAutograding, MarkerWorkflow>>

\* `${an} ${ae} ${cn} ${ce} ${subject}`.toLowerCase()
hay(c) ==
    toLowerCase(c.an \o <<" ">> \o c.ae \o <<" ">> \o c.cn \o <<" ">> \o c.ce
                \o <<" ">> \o c.subject)

isBot(c) == \E n \in 1..Len(BotMarkers) : includes(hay(c), BotMarkers[n])

\* the newest line, whoever wrote it
FirstLineOfAnyKind(lines, i) == IF i > Len(lines) THEN 0 ELSE i

\* the for-loop over the lines: the first line from i on that is no bot's and
\* has a finite time decides; 0 when there is none
FirstStudentLine(lines, i) ==
    LET at == {j \in i..Len(lines) : ~isBot(lines[j]) /\ lines[j].ct.finite}
    IN  IF at = {} THEN 0 ELSE Least(at)

\* the window "-n 300" of the first command
LOG_WINDOW == 300

Window(lines) ==
    IF Len(lines) > LOG_WINDOW THEN SubSeq(lines, 1, LOG_WINDOW) ELSE lines

\* What a call gives back: a value, or an exception that leaves the caller.
Returned(v) == [threw |-> FALSE, value |-> v]

Thrown == [threw |-> TRUE, value |-> Null]

\* The body of the try block.  execSync throws when the command fails.  The
\* fallback "git log -1 --format=%ct" reads the newest commit of the same
\* history.
LatestStudentCommitTry(log) ==
    IF ~log.ok THEN Thrown
    ELSE IF Len(log.lines) = 0 THEN Returned(Null)
    ELSE LET lines == Window(log.lines)
             i == FirstStudentLine(lines, 1)
         IN  IF i # 0 THEN Returned(TimeMs(lines[i].ct.v, 0))
             ELSE IF log.lines[1].ct.finite
                  THEN Returned(TimeMs(log.lines[1].ct.v, 0))
                  ELSE Returned(Null)

\* the function without its catch clause
getLatestStudentCommitEpochMsUncaught(log) == LatestStudentCommitTry(log)

\* try { ... } catch { return null; }
getLatestStudentCommitEpochMs(log) ==
    IF LatestStudentCommitTry(log).threw
    THEN Returned(Null)
    ELSE LatestStudentCommitTry(log)

\* the comparison with >= in place of >
wasSubmittedLateAtDeadline(log) ==
    LET commitMs == getLatestStudentCommitEpochMs(log).value
    IN  IF ~Truthy(commitMs) THEN FALSE
        ELSE MsGreaterOrEqual(commitMs, DUE_EPOCH_MS)

\* an unavailable time counted as late
wasSubmittedLateFailClosed(log) ==
    LET commitMs == getLatestStudentCommitEpochMs(log).value
    IN  IF ~Truthy(commitMs) THEN TRUE
        ELSE MsGreater(commitMs, DUE_EPOCH_MS)

wasSubmittedLate(log) ==
    LET commitMs == getLatestStudentCommitEpochMs(log).value
    IN  IF ~Truthy(commitMs) THEN FALSE
        ELSE MsGreater(commitMs, DUE_EPOCH_MS)

\* new Date(commitMs).toISOString(), or "unknown"
Unknown == [known |-> FALSE, at |-> Null]

IsoOf(t) == [known |-> TRUE, at |-> t]

commitIsoOf(commitMs) == IF Truthy(commitMs) THEN IsoOf(commitMs) ELSE Unknown

(***************************************************************************)
(* Requirement scoring                                                     *)
(***************************************************************************)
\* A requirement is req(label, ok, detailIfFail); the label is kept as the
\* fact it states: "selector sel exists", "selector sel has category what",
\* or a fact about a group of selectors; detailIfFail is report text only.
req(label, ok) == [label |-> label, ok |-> ok]

Exists(sel) == [kind |-> "exists", sel |-> sel, what |-> "rule"]

Has(sel, what) == [kind |-> "has", sel |-> sel, what |-> what]

Placeholder == [kind |-> "placeholder", sel |-> "none", what |-> "No submission / empty CSS"]

\* exact rational numbers n/d, d > 0, in lowest terms
RECURSIVE GCD(_, _)
GCD(a, b) == IF b = 0 THEN a ELSE GCD(b, a % b)

Frac(n, d) ==
    LET g == IF n = 0 THEN d ELSE GCD(n, d)
    IN  [n |-> n \div g, d |-> d \div g]

FracAdd(a, b) == Frac(a.n * b.d + b.n * a.d, a.d * b.d)

FracTimes(k, a) == Frac(k * a.n, a.d)

FracDiv(a, k) == Frac(a.n, a.d * k)

\* Math.round of a non-negative rational: halves go up
MathRound(a) == (2 * a.n + a.d) \div (2 * a.d)

MathFloor(a) == a.n \div a.d

MathMin(a, b) == IF a < b THEN a ELSE b

CountOk(reqs) == Len(SelectSeq(reqs, LAMBDA r : r.ok))

\* the fraction taken over one requirement more than there are
scoreFromRequirementsOffByOne(reqs) ==
    [ok |-> CountOk(reqs), total |-> Len(reqs),
     fraction |-> Frac(CountOk(reqs), Len(reqs) + 1)]

scoreFromRequirements(reqs) ==
    IF Len(reqs) = 0 THEN [ok |-> 0, total |-> 0, fraction |-> Frac(0, 1)]
    ELSE [ok |-> CountOk(reqs), total |-> Len(reqs),
          fraction |-> Frac(CountOk(reqs), Len(reqs))]

TODO_BUCKET_MAX == 80

SUBMISSION_MAX == 20

TOTAL_MAX == 100

(***************************************************************************)
(* TODO checks (9 TODOs)                                                   *)
(***************************************************************************)
TaskIds == <<"TODO 1", "TODO 2", "TODO 3", "TODO 4", "TODO 5", "TODO 6",
             "TODO 7", "TODO 8", "TODO 9">>

todoWeights ==
    [id \in {TaskIds[n] : n \in 1..Len(TaskIds)} |->
        IF id \in {"TODO 2", "TODO 6"} THEN 14 ELSE 12]

RECURSIVE SumWeights(_)
SumWeights(n) == IF n = 0 THEN 0 ELSE todoWeights[TaskIds[n]] + SumWeights(n - 1)

totalWeight == SumWeights(Len(TaskIds))

hasRule(rules, sel) == Len(findMatchingRules(rules, StringMatcher(sel))) > 0

\* the pair "selector exists" / "selector has the category" the table repeats
reqExists(rules, name, sel) == req(Exists(name), hasRule(rules, sel))

reqHas(rules, name, sel, what, props) ==
    req(Has(name, what), ruleSatisfies(rules, StringMatcher(sel), AnyOf(props)))

\* TODO 1: Basic Element Selectors (p, span)
Todo1(rules) ==
    <<reqExists(rules, "p", SelP),
      reqHas(rules, "p", SelP, "color", RELATED.color),
      reqHas(rules, "p", SelP, "font-size", RELATED.fontSize),
      reqExists(rules, "span", SelSpan),
      reqHas(rules, "span", SelSpan, "color", RELATED.color),
      reqHas(rules, "span", SelSpan, "font-size", RELATED.fontSize)>>

\* TODO 2: Class Selectors (.username, .blue-text, .red-text, .highlight)
Todo2(rules) ==
    <<reqExists(rules, ".username", SelUsername),
      reqHas(rules, ".username", SelUsername, "color", RELATED.color),
      reqHas(rules, ".username", SelUsername, "font-weight", RELATED.fontWeight),
      reqExists(rules, ".blue-text", SelBlueText),
      reqHas(rules, ".blue-text", SelBlueText, "color", RELATED.color),
      reqExists(rules, ".red-text", SelRedText),
      reqHas(rules, ".red-text", SelRedText, "color", RELATED.color),
      reqExists(rules, ".highlight", SelHighlight),
      reqHas(rules, ".highlight", SelHighlight, "background", RELATED.background),
      reqHas(rules, ".highlight", SelHighlight, "padding", RELATED.padding)>>

\* TODO 3 with the existence check pushed after the property checks
Todo3ExistsLast(rules) ==
    <<reqHas(rules, "#featured-user", SelFeaturedUser, "color", RELATED.color),
      reqHas(rules, "#featured-user", SelFeaturedUser, "font-size", RELATED.fontSize),
      reqExists(rules, "#featured-user", SelFeaturedUser)>>

\* TODO 3: ID Selector (#featured-user)
Todo3(rules) ==
    <<reqExists(rules, "#featured-user", SelFeaturedUser),
      reqHas(rules, "#featured-user", SelFeaturedUser, "color", RELATED.color),
      reqHas(rules, "#featured-user", SelFeaturedUser, "font-size", RELATED.fontSize)>>

\* TODO 4: Specificity Battle (p, .winner, #specificity-test, p.winner)
Todo4(rules) ==
    <<reqHas(rules, "p", SelP, "color", RELATED.color),
      reqHas(rules, ".winner", SelWinner, "color", RELATED.color),
      reqHas(rules, "#specificity-test", SelSpecificityTest, "color", RELATED.color),
      req(Has("p.winner", "color"),
          ruleSatisfies(rules, SquashedMatcher(SelPWinner), AnyOf(RELATED.color)))>>

\* /:\s*[^;]+;?/.test(decls): a colon followed by a character other than
\* ";" (\s* may match nothing, and whitespace is itself a [^;] character)
HasDeclaration(decls) ==
    \E k \in 1..Len(decls) :
        decls[k] = ":" /\ k + 1 <= Len(decls) /\ decls[k + 1] # ";"

\* TODO 5: !important Override (.important-test)
Todo5(rules) ==
    <<reqExists(rules, ".important-test", SelImportantTest),
      req(Has(".important-test", "!important"),
          ruleSatisfies(rules, StringMatcher(SelImportantTest),
                        Requirement(<<>>, <<>>, <<ImportantMarker>>))),
      req(Has(".important-test", "declared property"),
          LET matches == findMatchingRules(rules, StringMatcher(SelImportantTest))
          IN  \E n \in 1..Len(matches) : HasDeclaration(matches[n].decls))>>

msgSelRe == DescendantRe(SelChatContainer, SelMessage)

timeSelRe == DescendantRe(SelChatContainer, SelMessageTime)

\* TODO 6: Descendant Selectors
Todo6(rules) ==
    <<req(Exists(".chat-container .message"), Len(findMatchingRules(rules, msgSelRe)) > 0),
      req(Has(".chat-container .message", "color"),
          ruleSatisfies(rules, msgSelRe, AnyOf(RELATED.color))),
      req(Exists(".chat-container .message-time"), Len(findMatchingRules(rules, timeSelRe)) > 0),
      req(Has(".chat-container .message-time", "color"),
          ruleSatisfies(rules, timeSelRe, AnyOf(RELATED.color))),
      req(Has(".chat-container .message-time", "font-size"),
          ruleSatisfies(rules, timeSelRe, AnyOf(RELATED.fontSize)))>>

\* TODO 7: Pseudo-classes (:hover for .send-button and .chat-link)
Todo7(rules) ==
    <<reqExists(rules, ".send-button:hover", sendHover),
      reqHas(rules, ".send-button:hover", sendHover, "background", RELATED.background),
      reqHas(rules, ".send-button:hover", sendHover, "color", RELATED.color),
      reqExists(rules, ".chat-link:hover", linkHover),
      reqHas(rules, ".chat-link:hover", linkHover, "color", RELATED.color),
      reqHas(rules, ".chat-link:hover", linkHover, "text-decoration", RELATED.textDecoration)>>

AnyTrendingTag(rules, props) ==
    \/ ruleSatisfies(rules, StringMatcher(s4), AnyOf(props))
    \/ ruleSatisfies(rules, StringMatcher(s5), AnyOf(props))
    \/ ruleSatisfies(rules, StringMatcher(s6), AnyOf(props))

TrendingTags == [kind |-> "group", sel |-> "h4/h5/h6.trending-tag", what |-> "rules"]

TrendingTagsHave(what) == [kind |-> "group-has", sel |-> "h4/h5/h6.trending-tag", what |-> what]

\* TODO 8: Group Selectors (h4/h5/h6.trending-tag)
Todo8(rules) ==
    <<req(TrendingTags, hasRule(rules, s4) /\ hasRule(rules, s5) /\ hasRule(rules, s6)),
      req(TrendingTagsHave("color"), AnyTrendingTag(rules, RELATED.color)),
      req(TrendingTagsHave("font-family"), AnyTrendingTag(rules, RELATED.fontFamily))>>

\* TODO 9: Universal Selector (*) with box-sizing
Todo9(rules) ==
    <<reqExists(rules, "*", SelStar),
      reqHas(rules, "*", SelStar, "box-sizing", RELATED.boxSizing)>>

\* tasks[n].requirements()
requirements(n, rules) ==
    CASE n = 1 -> Todo1(rules)
      [] n = 2 -> Todo2(rules)
      [] n = 3 -> Todo3(rules)
      [] n = 4 -> Todo4(rules)
      [] n = 5 -> Todo5(rules)
      [] n = 6 -> Todo6(rules)
      [] n = 7 -> Todo7(rules)
      [] n = 8 -> Todo8(rules)
      [] n = 9 -> Todo9(rules)

(***************************************************************************)
(* Grade tasks (weighted -> normalized to TODO_BUCKET_MAX)                 *)
(***************************************************************************)
STATUS_ON_TIME == 0

STATUS_LATE == 1

STATUS_MISSING == 2

\* one element of tasks.map(...), built the requirements of the task's
\* builder being given: the builder is not run when the status is MISSING
gradedTask(n, status, built) ==
    LET reqs == IF status = STATUS_MISSING
                THEN <<req(Placeholder, FALSE)>>
                ELSE built
        score == scoreFromRequirements(reqs)
        weight == todoWeights[TaskIds[n]]
    IN  [id |-> TaskIds[n],
         ok |-> score.ok,
         total |-> score.total,
         fraction |-> score.fraction,
         weight |-> weight,
         earnedWeight |-> IF status = STATUS_MISSING
                          THEN Frac(0, 1)
                          ELSE FracTimes(weight, score.fraction),
         reqs |-> reqs]

taskResult(n, status, rules) == gradedTask(n, status, requirements(n, rules))

taskResultsOf(status, rules) ==
    [n \in 1..Len(TaskIds) |-> taskResult(n, status, rules)]

\* taskResults.reduce((sum, r) => sum + r.earnedWeight, 0)
RECURSIVE SumEarned(_, _)
SumEarned(results, n) ==
    IF n = 0 THEN Frac(0, 1)
    ELSE FracAdd(SumEarned(results, n - 1), results[n].earnedWeight)

earnedWeightTotalOf(results) == SumEarned(results, Len(results))

earnedTodoMarksTruncated(status, results) ==
    IF status = STATUS_MISSING THEN 0
    ELSE MathFloor(FracDiv(FracTimes(TODO_BUCKET_MAX, earnedWeightTotalOf(results)),
                           totalWeight))

\* the earned weights rounded without being brought to the bucket of 80
earnedTodoMarksNotNormalized(status, results) ==
    IF status = STATUS_MISSING THEN 0
    ELSE MathRound(earnedWeightTotalOf(results))

earnedTodoMarksOf(status, results) ==
    IF status = STATUS_MISSING THEN 0
    ELSE MathRound(FracDiv(FracTimes(TODO_BUCKET_MAX, earnedWeightTotalOf(results)),
                           totalWeight))

submissionMarksOf(status) ==
    IF status = STATUS_MISSING THEN 0
    ELSE IF status = STATUS_LATE THEN 10
    ELSE 20

totalEarnedOf(earnedTodoMarks, submissionMarks) ==
    MathMin(earnedTodoMarks + submissionMarks, TOTAL_MAX)

(***************************************************************************)
(* Inputs of a grading run                                                 *)
(***************************************************************************)
\* Stylesheet texts are put together from these pieces.
\* p { color: red; font-size: 14px; }
PieceScenarioA1 == <<"p", " ", "{", " ", "c", "o", "l", "o", "r", ":", " ", "r", "e", "d", ";", " ", "f", "o", "n", "t", "-", "s", "i", "z", "e", ":", " ", "1", "4", "p", "x", ";", " ", "}">>

\*  span { color: blue; font-size: 12px; }
PieceScenarioA2 == <<" ", "s", "p", "a", "n", " ", "{", " ", "c", "o", "l", "o", "r", ":", " ", "b", "l", "u", "e", ";", " ", "f", "o", "n", "t", "-", "s", "i", "z", "e", ":", " ", "1", "2", "p", "x", ";", " ", "}">>

\* P, SPAN {\n  COLOR: red;\n  font: 12px serif\n}
PieceShorthand == <<"P", ",", " ", "S", "P", "A", "N", " ", "{", "\n", " ", " ", "C", "O", "L", "O", "R", ":", " ", "r", "e", "d", ";", "\n", " ", " ", "f", "o", "n", "t", ":", " ", "1", "2", "p", "x", " ", "s", "e", "r", "i", "f", "\n", "}">>

\* .important-test { color: blue; }
PieceImportantNo == <<".", "i", "m", "p", "o", "r", "t", "a", "n", "t", "-", "t", "e", "s", "t", " ", "{", " ", "c", "o", "l", "o", "r", ":", " ", "b", "l", "u", "e", ";", " ", "}">>

\* .important-test{color:red !important}
PieceImportantYes == <<".", "i", "m", "p", "o", "r", "t", "a", "n", "t", "-", "t", "e", "s", "t", "{", "c", "o", "l", "o", "r", ":", "r", "e", "d", " ", "!", "i", "m", "p", "o", "r", "t", "a", "n", "t", "}">>

\* /* TODO 1 */
PieceComment == <<"/", "*", " ", "T", "O", "D", "O", " ", "1", " ", "*", "/">>

\*  \n
PieceBlank == <<" ", "\n">>

\* *{top:0}
PieceTiny == <<"*", "{", "t", "o", "p", ":", "0", "}">>

\* p, .winner { color: red }
PieceWinners == <<"p", ",", " ", ".", "w", "i", "n", "n", "e", "r", " ", "{", " ", "c", "o", "l", "o", "r", ":", " ", "r", "e", "d", " ", "}">>

\* .chat-container   .message-time { color: gray }
PieceDescendant == <<".", "c", "h", "a", "t", "-", "c", "o", "n", "t", "a", "i", "n", "e", "r", " ", " ", " ", ".", "m", "e", "s", "s", "a", "g", "e", "-", "t", "i", "m", "e", " ", "{", " ", "c", "o", "l", "o", "r", ":", " ", "g", "r", "a", "y", " ", "}">>

\* h4.trending-tag,h5.trending-tag,\nh6.trending-tag{font:1em serif}
PieceTrending == <<"h", "4", ".", "t", "r", "e", "n", "d", "i", "n", "g", "-", "t", "a", "g", ",", "h", "5", ".", "t", "r", "e", "n", "d", "i", "n", "g", "-", "t", "a", "g", ",", "\n", "h", "6", ".", "t", "r", "e", "n", "d", "i", "n", "g", "-", "t", "a", "g", "{", "f", "o", "n", "t", ":", "1", "e", "m", " ", "s", "e", "r", "i", "f", "}">>

\* * { box-sizing: border-box; }
PieceUniversal == <<"*", " ", "{", " ", "b", "o", "x", "-", "s", "i", "z", "i", "n", "g", ":", " ", "b", "o", "r", "d", "e", "r", "-", "b", "o", "x", ";", " ", "}">>

StylesheetPieces ==
    <<PieceScenarioA1,
      PieceScenarioA2,
      PieceShorthand,
      PieceImportantNo,
      PieceImportantYes,
      PieceComment,
      PieceBlank,
      PieceTiny,
      PieceWinners,
      PieceDescendant,
      PieceTrending,
      PieceUniversal>>

\* at most this many pieces make one stylesheet
MaxPieces == 2

\* at most this many commits are in the history
MaxCommits == 1

RECURSIVE ConcatPieces(_, _)
ConcatPieces(chosen, n) ==
    IF n > Len(StylesheetPieces) THEN <<>>
    ELSE (IF n \in chosen THEN StylesheetPieces[n] ELSE <<>>)
             \o ConcatPieces(chosen, n + 1)

\* the stylesheets: up to MaxPieces pieces, in the order of the list
Stylesheets ==
    {ConcatPieces(chosen, 1) :
        chosen \in {c \in SUBSET (1..Len(StylesheetPieces)) : Cardinality(c) <= MaxPieces}}

\* Repository layouts: whether index.html exists, the stylesheet references
\* findCssHrefs reads from it, the files that exist, and the names readdir
\* lists.  Every existing stylesheet file of a layout holds the same text.
NoPath == ""

Href(remote, path) == [remote |-> remote, path |-> path]

Layout(hasIndex, hrefs, exists, dir) ==
    [hasIndex |-> hasIndex, hrefs |-> hrefs, exists |-> exists, dir |-> dir]

Layouts ==
    {Layout(FALSE, <<>>, {}, <<>>),
     Layout(TRUE, <<Href(FALSE, "css/missing.css")>>, {"index.html"}, <<>>),
     Layout(FALSE, <<>>, {"styles.css"}, <<"styles.css">>),
     Layout(TRUE, <<Href(TRUE, "https://cdn/x.css"), Href(FALSE, "styles.css")>>,
            {"index.html", "styles.css"}, <<"styles.css">>),
     Layout(TRUE, <<>>, {"index.html", "main.css"}, <<"main.css">>)}

\* the commits of the model's histories: a student's or a bot's, with a time
\* around the deadline or none
StudentCommit(ct) ==
    Commit(ct, StudentName, StudentEmail, StudentName, StudentEmail, SubjectStyles)

BotCommit(ct) ==
    Commit(ct, BotName, BotEmail, BotName, BotEmail, SubjectWorkflow)

Commits ==
    {StudentCommit(NaN),
     StudentCommit(Seconds(DUE_EPOCH_SECONDS - 1)),
     StudentCommit(Seconds(DUE_EPOCH_SECONDS)),
     StudentCommit(Seconds(DUE_EPOCH_SECONDS + 1)),
     BotCommit(Seconds(DUE_EPOCH_SECONDS + 1))}

RECURSIVE SeqsUpTo(_, _)
SeqsUpTo(S, n) ==
    IF n = 0 THEN {<<>>}
    ELSE SeqsUpTo(S, n - 1)
         \cup {Append(q, x) : q \in {r \in SeqsUpTo(S, n - 1) : Len(r) = n - 1}, x \in S}

Histories == {Unavailable} \cup {GitLog(lines) : lines \in SeqsUpTo(Commits, MaxCommits)}

(***************************************************************************)
(* Locate files                                                            *)
(***************************************************************************)
\* resolveFromIndex: no path for an http(s) reference
resolveFromIndex(href) == IF href.remote THEN NoPath ELSE href.path

\* the loop over the hrefs: the first that resolves to an existing file
RECURSIVE FirstLinked(_, _)
FirstLinked(layout, n) ==
    IF n > Len(layout.hrefs) THEN NoPath
    ELSE LET resolved == resolveFromIndex(layout.hrefs[n])
         IN  IF resolved # NoPath /\ resolved \in layout.exists
             THEN resolved
             ELSE FirstLinked(layout, n + 1)

CSS_FILE_DEFAULT == "styles.css"

GuessCandidates == <<CSS_FILE_DEFAULT, "style.css", "main.css", "app.css", "index.css">>

RECURSIVE FirstExisting(_, _, _)
FirstExisting(names, exists, n) ==
    IF n > Len(names) THEN NoPath
    ELSE IF names[n] \in exists THEN names[n]
    ELSE FirstExisting(names, exists, n + 1)

\* guessCssFileFromRepo: a usual name, else the first stylesheet readdir lists
guessCssFileFromRepo(layout) ==
    LET c == FirstExisting(GuessCandidates, layout.exists, 1)
    IN  IF c # NoPath THEN c
        ELSE IF Len(layout.dir) > 0 THEN layout.dir[1]
        ELSE NoPath

linkedCssOf(layout) ==
    LET linked == IF layout.hasIndex THEN FirstLinked(layout, 1) ELSE NoPath
    IN  IF linked # NoPath THEN linked
        ELSE IF CSS_FILE_DEFAULT \in layout.exists THEN CSS_FILE_DEFAULT
        ELSE guessCssFileFromRepo(layout)

(***************************************************************************)
(* The grading run                                                         *)
(***************************************************************************)
VARIABLES
    pc,               \* the statement the script is at
    gitLog,           \* what "git log" prints: the repository's history
    hasCss,
    cssCode,
    cssEmpty,
    lateCommitMs,     \* commitMs inside wasSubmittedLate()
    late,
    status,
    submissionMarks,
    commitMs,
    commitIso,
    rules,
    taskResults,
    earnedTodoMarks,
    totalEarned,
    csv,              \* the row written to artifacts/grade.csv, <<>> before
    call,             \* a helper called on its own: its name and arguments
    ret               \* and what it returned

vars ==
    <<pc, gitLog, hasCss, cssCode, cssEmpty, lateCommitMs, late, status,
      submissionMarks, commitMs, commitIso, rules, taskResults, earnedTodoMarks,
      totalEarned, csv, call, ret>>

NoCall == [fn |-> "none"]

NoValue == [none |-> TRUE]

\* the script's variables before its first statement
Fresh ==
    /\ hasCss = FALSE
    /\ cssCode = <<>>
    /\ cssEmpty = TRUE
    /\ lateCommitMs = Null
    /\ late = FALSE
    /\ status = STATUS_ON_TIME
    /\ submissionMarks = 0
    /\ commitMs = Null
    /\ commitIso = Unknown
    /\ rules = <<>>
    /\ taskResults = <<>>
    /\ earnedTodoMarks = 0
    /\ totalEarned = 0
    /\ csv = <<>>

Init ==
    /\ pc = "locate"
    /\ gitLog \in Histories
    /\ Fresh
    /\ call = NoCall
    /\ ret = NoValue

\* lines 291-323: locate the stylesheet and read it
Locate ==
    /\ pc = "locate"
    /\ \E layout \in Layouts, text \in Stylesheets :
          LET linkedCss == linkedCssOf(layout)
              found == linkedCss # NoPath /\ linkedCss \in layout.exists
              code == IF found THEN text ELSE <<>>
          IN  /\ hasCss' = found
              /\ cssCode' = code
              /\ cssEmpty' = IF found THEN isEmptyCss(code) ELSE TRUE
    /\ pc' = "status"
    /\ UNCHANGED <<gitLog, lateCommitMs, late, status, submissionMarks, commitMs,
                   commitIso, rules, taskResults, earnedTodoMarks, totalEarned, csv,
                   call, ret>>

\* the lateness looked at before the stylesheet
statusOfLateFirst(found, empty, isLate) ==
    IF isLate THEN STATUS_LATE
    ELSE IF ~found \/ empty THEN STATUS_MISSING
    ELSE STATUS_ON_TIME

statusOf(found, empty, isLate) ==
    IF ~found \/ empty THEN STATUS_MISSING
    ELSE IF isLate THEN STATUS_LATE
    ELSE STATUS_ON_TIME

\* an exception nothing catches ends the script before it writes anything
Abort == pc' = "aborted"

\* lines 326-332: submission status and marks
SubmissionStatus ==
    /\ pc = "status"
    /\ IF getLatestStudentCommitEpochMs(gitLog).threw
       THEN /\ Abort
            /\ UNCHANGED <<lateCommitMs, late, status, submissionMarks>>
       ELSE /\ lateCommitMs' = getLatestStudentCommitEpochMs(gitLog).value
            /\ late' = wasSubmittedLate(gitLog)
            /\ status' = statusOf(hasCss, cssEmpty, late')
            /\ submissionMarks' = submissionMarksOf(status')
            /\ pc' = "commit"
    /\ UNCHANGED <<gitLog, hasCss, cssCode, cssEmpty, commitMs, commitIso,
                   rules, taskResults, earnedTodoMarks, totalEarned, csv, call, ret>>

\* lines 334-342: the commit time shown in the report
CommitTime ==
    /\ pc = "commit"
    /\ IF getLatestStudentCommitEpochMs(gitLog).threw
       THEN /\ Abort
            /\ UNCHANGED <<commitMs, commitIso>>
       ELSE /\ commitMs' = getLatestStudentCommitEpochMs(gitLog).value
            /\ commitIso' = commitIsoOf(commitMs')
            /\ pc' = "grade"
    /\ UNCHANGED <<gitLog, hasCss, cssCode, cssEmpty, lateCommitMs, late,
                   status, submissionMarks, rules, taskResults, earnedTodoMarks,
                   totalEarned, csv, call, ret>>

\* lines 345-762: parse the rules, only of a stylesheet that exists and is not
\* empty, grade the tasks and add up
GradeTasks ==
    /\ pc = "grade"
    /\ rules' = IF hasCss /\ ~cssEmpty THEN parseCssRules(cssCode) ELSE <<>>
    /\ taskResults' = taskResultsOf(status, rules')
    /\ earnedTodoMarks' = earnedTodoMarksOf(status, taskResults')
    /\ totalEarned' = totalEarnedOf(earnedTodoMarks', submissionMarks)
    /\ pc' = "write"
    /\ UNCHANGED <<gitLog, hasCss, cssCode, cssEmpty, lateCommitMs, late,
                   status, submissionMarks, commitMs, commitIso, csv, call, ret>>

\* lines 764-817: the report and the row "student,obtained,total,status"
WriteOutputs ==
    /\ pc = "write"
    /\ csv' = <<totalEarned, TOTAL_MAX, status>>
    /\ pc' = "done"
    /\ UNCHANGED <<gitLog, hasCss, cssCode, cssEmpty, lateCommitMs, late,
                   status, submissionMarks, commitMs, commitIso, rules, taskResults,
                   earnedTodoMarks, totalEarned, call, ret>>

Next ==
    \/ Locate
    \/ SubmissionStatus
    \/ CommitTime
    \/ GradeTasks
    \/ WriteOutputs

Spec == Init /\ [][Next]_vars

(***************************************************************************)
(* Properties of the grading run                                           *)
(***************************************************************************)
Graded == pc \in {"write", "done"}

StatusKnown == pc \in {"commit", "grade", "write", "done"}

\* a number every requirement count 1..10 divides
CommonDenominator == 8 * 9 * 5 * 7

\* the weights as the header of the script states them
StatedWeight(n) == IF n \in {2, 6} THEN 14 ELSE 12

\* CommonDenominator * S, S the sum of weight * satisfied / total over the
\* first n tasks; a task without requirements adds nothing
RECURSIVE ScaledSum(_, _)
ScaledSum(results, n) ==
    IF n = 0 THEN 0
    ELSE ScaledSum(results, n - 1)
         + (IF results[n].total = 0 THEN 0
            ELSE StatedWeight(n) * results[n].ok * (CommonDenominator \div results[n].total))

\* round(80 * S / 112) with halves going up, from CommonDenominator * S
RoundedMarks(scaled) ==
    (2 * 80 * scaled + 112 * CommonDenominator) \div (2 * 112 * CommonDenominator)

\* C1: on a submission that is not MISSING the TODO marks are
\* round(80 * S / 112), S the sum over the nine tasks of
\* weight * satisfied / total with the weights 12 (14 for TODO 2 and TODO 6),
\* each task contributes exactly weight * satisfied / total, and the final
\* score is min(TODO marks + status component, 100).
C1_WeightedScore ==
    (Graded /\ status # STATUS_MISSING) =>
        /\ Len(taskResults) = 9
        /\ totalWeight = 112
        /\ \A n \in 1..Len(taskResults) :
              LET r == taskResults[n]
              IN  /\ r.weight = StatedWeight(n)
                  /\ r.total > 0
                  /\ CommonDenominator % r.total = 0
                  /\ r.ok = Cardinality({k \in 1..Len(r.reqs) : r.reqs[k].ok})
                  /\ r.total = Len(r.reqs)
                  /\ r.earnedWeight.n * r.total = StatedWeight(n) * r.ok * r.earnedWeight.d
        /\ earnedTodoMarks = RoundedMarks(ScaledSum(taskResults, Len(taskResults)))
        /\ totalEarned = (IF earnedTodoMarks + submissionMarks < 100
                          THEN earnedTodoMarks + submissionMarks
                          ELSE 100)

\* C1 witness: a graded run in which TODO 4 (weight 12) has 2 of its 4
\* requirements satisfied and so contributes 12 * 0.5 = 6
C1_Witness ==
    /\ pc = "done"
    /\ status # STATUS_MISSING
    /\ taskResults[4].ok = 2
    /\ taskResults[4].total = 4
    /\ taskResults[4].earnedWeight = [n |-> 6, d |-> 1]
    /\ earnedTodoMarks > 0

\* the length of the stylesheet once comments are stripped and whitespace is
\* compacted
SignificantLength(css) == Len(trim(collapseWs(stripCssComments(css))))

\* the stylesheet holds nothing but whitespace and comments
OnlyWhitespaceAndComments(css) == SignificantLength(css) = 0

C3_WitnessAtDeadline ==
    /\ pc = "done"
    /\ hasCss /\ ~cssEmpty
    /\ lateCommitMs = TimeMs(DUE_EPOCH_SECONDS, 0)
    /\ status = STATUS_ON_TIME
    /\ submissionMarks = 20

\* the history query fails, prints nothing, or prints no finite time
NoCommitTime(log) ==
    \/ ~log.ok
    \/ Len(log.lines) = 0
    \/ \A n \in 1..Len(log.lines) : ~log.lines[n].ct.finite

LateHistory(log) ==
    /\ log.ok
    /\ Len(log.lines) > 0
    /\ ~isBot(log.lines[1])
    /\ log.lines[1].ct.finite
    /\ log.lines[1].ct.v > DUE_EPOCH_SECONDS

\* C5: whenever no stylesheet is found or the stylesheet is empty or holds
\* only whitespace and comments the status is MISSING, and whenever the status
\* is MISSING every task reports exactly one unsatisfied placeholder
\* requirement, the TODO marks are 0, the status component is 0 and the total
\* is 0, whatever the commit time.
C5_MissingShortCircuit ==
    /\ (StatusKnown /\ (~hasCss \/ OnlyWhitespaceAndComments(cssCode)))
          => (status = STATUS_MISSING /\ submissionMarks = 0)
    /\ (pc \in {"write", "done"} /\ status = STATUS_MISSING) =>
          /\ rules = <<>>
          /\ Len(taskResults) = 9
          /\ \A n \in 1..Len(taskResults) :
                /\ Len(taskResults[n].reqs) = 1
                /\ taskResults[n].reqs[1].label.kind = "placeholder"
                /\ ~taskResults[n].reqs[1].ok
                /\ taskResults[n].ok = 0
                /\ taskResults[n].earnedWeight.n = 0
          /\ earnedTodoMarks = 0
          /\ submissionMarks = 0
          /\ totalEarned = 0
    /\ (pc = "done" /\ status = STATUS_MISSING) => csv = <<0, 100, 2>>

\* C5 witness: a comments-only stylesheet with a commit after the deadline,
\* graded MISSING with total 0
C5_Witness ==
    /\ pc = "done"
    /\ hasCss
    /\ cssCode # <<>>
    /\ OnlyWhitespaceAndComments(cssCode)
    /\ LateHistory(gitLog)
    /\ status = STATUS_MISSING
    /\ totalEarned = 0

\* C5 also covers the run that finds no stylesheet at all
C5_WitnessNoFile ==
    /\ pc = "done"
    /\ ~hasCss
    /\ LateHistory(gitLog)
    /\ status = STATUS_MISSING
    /\ totalEarned = 0

NameColor == <<"c", "o", "l", "o", "r">>

NameFontSize == <<"f", "o", "n", "t", "-", "s", "i", "z", "e">>

NameFont == <<"f", "o", "n", "t">>

\* the property names a declaration text declares: of each ";"-separated
\* declaration that has a colon, the text before the first colon, trimmed
DeclaredNames(decls) ==
    LET parts == split(decls, ";")
    IN  {trim(split(parts[n], ":")[1]) :
            n \in {m \in 1..Len(parts) : Len(split(parts[m], ":")) > 1}}

\* some rule with exactly this selector declares color and font-size or font
DeclaresColorAndFontSize(rs, sel) ==
    \E n \in 1..Len(rs) :
        /\ rs[n].selector = sel
        /\ NameColor \in DeclaredNames(rs[n].decls)
        /\ DeclaredNames(rs[n].decls) \cap {NameFontSize, NameFont} # {}

ScenarioA == PieceScenarioA1 \o PieceScenarioA2

\* the history's newest commit is a student's and before the deadline
EarlyHistory(log) ==
    /\ log.ok
    /\ Len(log.lines) > 0
    /\ ~isBot(log.lines[1])
    /\ log.lines[1].ct.finite
    /\ log.lines[1].ct.v < DUE_EPOCH_SECONDS

\* C10: TODO 1 reports all six requirements satisfied whenever the stylesheet
\* has a p rule and a span rule that each declare color and font-size or the
\* font shorthand; scenario A with a commit before the deadline is ON_TIME
\* with TODO 1 fully satisfied.
C10_Todo1Full ==
    /\ (Graded /\ DeclaresColorAndFontSize(rules, SelP)
               /\ DeclaresColorAndFontSize(rules, SelSpan)) =>
          /\ taskResults[1].id = "TODO 1"
          /\ taskResults[1].total = 6
          /\ taskResults[1].ok = 6
          /\ \A k \in 1..6 : taskResults[1].reqs[k].ok
    /\ (Graded /\ hasCss /\ cssCode = ScenarioA) =>
          /\ taskResults[1].ok = 6
          /\ taskResults[1].total = 6
          /\ EarlyHistory(gitLog) => status = STATUS_ON_TIME

\* C10 witness: scenario A graded with a commit before the deadline
C10_Witness ==
    /\ pc = "done"
    /\ hasCss
    /\ cssCode = ScenarioA
    /\ EarlyHistory(gitLog)
    /\ status = STATUS_ON_TIME
    /\ taskResults[1].ok = 6

\* C10 also covers the font shorthand in place of font-size
C10_WitnessShorthand ==
    /\ pc = "done"
    /\ hasCss
    /\ cssCode = PieceShorthand
    /\ NameFontSize \notin DeclaredNames(rules[1].decls)
    /\ taskResults[1].ok = 6

(***************************************************************************)
(* The helpers called on their own                                         *)
(***************************************************************************)
\* at most this many blocks make one text given to parseCssRules
MaxBlocks == 2

\* at most this many rules are given to ruleSatisfies
MaxRules == 2

\* at most this many declarations make one declaration text
MaxDecls == 2

\* the sequences over S of length at most n
BoundedSeqs(S, n) == UNION {[1..m -> S] : m \in 0..n}

\* Selector lists, as their comma-separated pieces, and declaration texts of
\* the blocks given to parseCssRules.
BlockSelectorLists ==
    {<<<<"a">>>>,
     <<<<" ", "A", " ", " ", "b", " ">>>>,
     <<<<"a">>, <<>>, <<" ", "B">>>>,
     <<<<>>, <<" ">>>>,
     <<<<"x", "\n", "y">>, <<"Z">>>>}

BlockDeclTexts ==
    {<<>>,
     <<" ", "X", " ", ":", " ", "1", " ", ";", "\n", " ", "Y", ":", "2", " ">>,
     <<"k", ":", "v">>}

Blocks == {[sels |-> sl, decl |-> d] : sl \in BlockSelectorLists, d \in BlockDeclTexts}

RECURSIVE JoinWith(_, _)
JoinWith(pieces, sep) ==
    IF Len(pieces) = 0 THEN <<>>
    ELSE IF Len(pieces) = 1 THEN pieces[1]
    ELSE pieces[1] \o <<sep>> \o JoinWith(Tail(pieces), sep)

\* the stylesheet text of a sequence of blocks
RECURSIVE RenderBlocks(_)
RenderBlocks(blocks) ==
    IF Len(blocks) = 0 THEN <<>>
    ELSE JoinWith(blocks[1].sels, ",") \o <<"{">> \o blocks[1].decl \o <<"}">>
             \o RenderBlocks(Tail(blocks))

\* Declarations of the texts given to declsHasAnyProperty: a property name,
\* a colon and a value.
Declarations ==
    {<<"c", "o", "l", "o", "r", ":", " ", "r", "e", "d">>,
     <<"C", "O", "L", "O", "R", ":", "R", "E", "D">>,
     <<"c", "o", "l", "o", "r", " ", ":", " ", "r", "e", "d">>,
     <<"b", "o", "r", "d", "e", "r", "-", "c", "o", "l", "o", "r", ":", " ", "r", "e", "d">>,
     <<"c", "o", "l", "o", "r", "f", "u", "l", "-", "b", "o", "r", "d", "e", "r", ":", " ", "r", "e", "d">>,
     <<"b", "a", "c", "k", "g", "r", "o", "u", "n", "d", "-", "c", "o", "l", "o", "r", "-", "c", "u", "s", "t", "o", "m", ":", " ", "r", "e", "d">>,
     <<"b", "g", "c", "o", "l", "o", "r", ":", " ", "r", "e", "d">>,
     <<"x", "_", "c", "o", "l", "o", "r", ":", " ", "r", "e", "d">>,
     <<"f", "o", "n", "t", ":", " ", "1", "e", "m", " ", "s", "e", "r", "i", "f">>,
     <<"f", "o", "n", "t", "-", "s", "i", "z", "e", ":", " ", "1", "e", "m">>,
     <<"t", "o", "p", ":", " ", "0">>}

\* the declaration text of a sequence of declarations, each closed by ";"
\* and set apart by a space
RECURSIVE RenderDecls(_)
RenderDecls(ds) ==
    IF Len(ds) = 0 THEN <<>>
    ELSE ds[1] \o <<";">>
             \o (IF Len(ds) > 1 THEN <<" ">> \o RenderDecls(Tail(ds)) ELSE <<>>)

DeclTexts ==
    {RenderDecls(ds) : ds \in BoundedSeqs(Declarations, MaxDecls)}
    \cup Declarations

AskedProperties == {PropColor, PropFont, PropFontSize}

\* Rules, selector queries and requirement contents given to ruleSatisfies.
RuleSelectors == {<<"a">>, <<"a", " ", "b">>}

RuleDecls == {<<>>, <<"x", ":", " ", "1">>, <<"y", ":", " ", "2", " ", "!", "k">>, <<"x", ":", " ", "1", ";", " ", "y", ":", " ", "2">>}

RuleLibrary == {[selector |-> sel, decls |-> d] : sel \in RuleSelectors, d \in RuleDecls}

PropX == <<"x">>

PropY == <<"y">>

NeedleK == <<"!", "K">>

Queries ==
    {StringMatcher(<<"a">>), StringMatcher(<<" ", "A", " ">>), StringMatcher(<<"c">>),
     DescendantRe(<<"a">>, <<"b">>), SquashedMatcher(<<"a", "b">>)}

Wants ==
    {Requirement(any, all, inc) :
        any \in {<<>>, <<PropX>>, <<PropX, PropY>>},
        all \in {<<>>, <<PropX, PropY>>},
        inc \in {<<>>, <<NeedleK>>}}

\* at most this many commits are in a history given to wasSubmittedLate
MaxLog == 2

\* a student's commit whose subject names a workflow
StudentWorkflowCommit(ct) ==
    Commit(ct, StudentName, StudentEmail, StudentName, StudentEmail, SubjectWorkflow)

\* n commits of the bot, all after the deadline
BotCommits(n) == [k \in 1..n |-> BotCommit(Seconds(DUE_EPOCH_SECONDS + 1))]

\* Histories given to wasSubmittedLate: short ones of every make-up, and
\* ones where LOG_WINDOW - 1 or LOG_WINDOW commits of the bot lie on top of
\* a student's commit.
AskedLogs ==
    {Unavailable}
    \cup {GitLog(lines) :
             lines \in BoundedSeqs(Commits \cup {StudentWorkflowCommit(Seconds(DUE_EPOCH_SECONDS - 1))},
                                   MaxLog)}
    \cup {GitLog(BotCommits(n) \o <<StudentCommit(Seconds(t))>>) :
             n \in {LOG_WINDOW - 1, LOG_WINDOW},
             t \in {DUE_EPOCH_SECONDS - 1, DUE_EPOCH_SECONDS + 1}}

\* at most this many characters make one raw text given to parseCssRules
MaxText == 5

\* Raw texts, well formed or not: a letter, commas, blanks and braces in any
\* order.
TextChars == {"a", ",", " ", "{", "}"}

RawTexts == BoundedSeqs(TextChars, MaxText)

\* Requirement outcomes given to the grading of the tasks: the requirements
\* of task n in their order, the first ok of them satisfied.
OutcomeOf(n, ok) ==
    LET labels == requirements(n, <<>>)
    IN  [k \in 1..Len(labels) |-> req(labels[k].label, k <= ok)]

RequirementCount(n) == Len(requirements(n, <<>>))

\* for each of the first n tasks none, half or all of its requirements
\* satisfied
RECURSIVE OkCountsOf(_)
OkCountsOf(n) ==
    IF n = 0 THEN {<<>>}
    ELSE {Append(oks, ok) :
             oks \in OkCountsOf(n - 1),
             ok \in {0, RequirementCount(n) \div 2, RequirementCount(n)}}

OkCounts == OkCountsOf(Len(TaskIds))

HelperCalls ==
    {[fn |-> "parseCssRules", blocks |-> bs] : bs \in BoundedSeqs(Blocks, MaxBlocks)}
    \cup {[fn |-> "declsHasAnyProperty", decls |-> d, propNames |-> <<p>>] :
             d \in DeclTexts, p \in AskedProperties}
    \cup {[fn |-> "ruleSatisfies", rules |-> rs, selectorMatcher |-> q, want |-> w] :
             rs \in BoundedSeqs(RuleLibrary, MaxRules), q \in Queries, w \in Wants}
    \cup {[fn |-> "wasSubmittedLate", log |-> log] : log \in AskedLogs}
    \cup {[fn |-> "parseCssRules twice", text |-> t] : t \in RawTexts}
    \cup {[fn |-> "grade tasks", status |-> st, oks |-> oks] :
             st \in {STATUS_ON_TIME, STATUS_LATE}, oks \in OkCounts}
    \cup {[fn |-> "grade tasks", status |-> STATUS_MISSING, oks |-> [n \in 1..9 |-> 0]]}

InitHelpers ==
    /\ pc = "call"
    /\ call \in HelperCalls
    /\ ret = NoValue
    /\ gitLog = Unavailable
    /\ Fresh

Unused ==
    UNCHANGED <<gitLog, hasCss, cssCode, cssEmpty, lateCommitMs, late, status,
                submissionMarks, commitMs, commitIso, rules, taskResults,
                earnedTodoMarks, totalEarned, csv, call>>

CallParseCssRules ==
    /\ pc = "call"
    /\ call.fn = "parseCssRules"
    /\ ret' = parseCssRules(RenderBlocks(call.blocks))
    /\ pc' = "returned"
    /\ Unused

CallDeclsHasAnyProperty ==
    /\ pc = "call"
    /\ call.fn = "declsHasAnyProperty"
    /\ ret' = declsHasAnyProperty(call.decls, call.propNames)
    /\ pc' = "returned"
    /\ Unused

CallRuleSatisfies ==
    /\ pc = "call"
    /\ call.fn = "ruleSatisfies"
    /\ ret' = ruleSatisfies(call.rules, call.selectorMatcher, call.want)
    /\ pc' = "returned"
    /\ Unused

\* lines 118-122, with the time the function looked at
CallWasSubmittedLate ==
    /\ pc = "call"
    /\ call.fn = "wasSubmittedLate"
    /\ ret' = [used |-> getLatestStudentCommitEpochMs(call.log).value,
               late |-> wasSubmittedLate(call.log)]
    /\ pc' = "returned"
    /\ Unused

\* parseCssRules called on a text, and then once more on the same text
CallParseCssRulesOnce ==
    /\ pc = "call"
    /\ call.fn = "parseCssRules twice"
    /\ ret' = [first |-> rulesAtEntry(<<>>) \o parseCssRules(call.text),
               second |-> <<>>]
    /\ pc' = "again"
    /\ Unused

CallParseCssRulesAgain ==
    /\ pc = "again"
    /\ call.fn = "parseCssRules twice"
    /\ ret' = [first |-> ret.first,
               second |-> rulesAtEntry(ret.first) \o parseCssRules(call.text)]
    /\ pc' = "returned"
    /\ Unused

\* lines 332 and 739-762 on requirement outcomes given task by task
CallGradeTasks ==
    /\ pc = "call"
    /\ call.fn = "grade tasks"
    /\ LET results == [n \in 1..Len(TaskIds) |->
                          gradedTask(n, call.status, OutcomeOf(n, call.oks[n]))]
           todo == earnedTodoMarksOf(call.status, results)
           submission == submissionMarksOf(call.status)
       IN  ret' = [earnedTodoMarks |-> todo,
                   submissionMarks |-> submission,
                   totalEarned |-> totalEarnedOf(todo, submission)]
    /\ pc' = "returned"
    /\ Unused

NextHelpers ==
    \/ CallParseCssRules
    \/ CallDeclsHasAnyProperty
    \/ CallRuleSatisfies
    \/ CallWasSubmittedLate
    \/ CallParseCssRulesOnce
    \/ CallParseCssRulesAgain
    \/ CallGradeTasks

SpecHelpers == InitHelpers /\ [][NextHelpers]_vars

ReturnedFrom(fn) == pc = "returned" /\ call.fn = fn

\* a rule that matches the query and meets every sub-condition by itself
MeetsEverything(r, q, want) ==
    /\ SelectorMatches(r.selector, q, MatcherTarget(q))
    /\ \A n \in 1..Len(want.allProps) : RegExpPropTest(want.allProps[n], r.decls)
    /\ Len(want.anyProps) # 0 =>
           \E n \in 1..Len(want.anyProps) : RegExpPropTest(want.anyProps[n], r.decls)
    /\ \A n \in 1..Len(want.mustInclude) :
           includes(r.decls, toLowerCase(want.mustInclude[n]))

SomeRuleMatches(rs, q) ==
    \E n \in 1..Len(rs) : SelectorMatches(rs[n].selector, q, MatcherTarget(q))

\* C6: ruleSatisfies returns true if and only if one single rule matches the
\* query and has, by itself, every property of allProps, one of anyProps when
\* anyProps is not empty, and every mustInclude substring; so it is false
\* whenever no rule matches, whatever the requirement, and sub-conditions met
\* by different matching rules do not add up.
C6_SingleRuleSatisfies ==
    ReturnedFrom("ruleSatisfies") =>
        /\ ret = (\E n \in 1..Len(call.rules) :
                      MeetsEverything(call.rules[n], call.selectorMatcher, call.want))
        /\ ~SomeRuleMatches(call.rules, call.selectorMatcher) => ret = FALSE

\* two matching rules meet the all-of and the any-of between them, none alone
C6_Witness ==
    /\ ReturnedFrom("ruleSatisfies")
    /\ ret = FALSE
    /\ Len(findMatchingRules(call.rules, call.selectorMatcher)) = 2
    /\ \E n \in 1..Len(call.rules) : okAll(call.rules[n].decls, call.want)
    /\ \E n \in 1..Len(call.rules) : okAny(call.rules[n].decls, call.want)
    /\ \E n \in 1..Len(call.rules) : okInclude(call.rules[n].decls, call.want)
    /\ Len(call.want.mustInclude) # 0

\* the name ends with p, letter case ignored, and p starts the name or comes
\* after a character that is no letter, digit or underscore
EndsWithAtBoundary(name, p) ==
    /\ Len(name) >= Len(p)
    /\ OccursAtIgnoreCase(name, p, Len(name) - Len(p) + 1)
    /\ Len(name) > Len(p) => name[Len(name) - Len(p)] \notin WordChars

StartsWith(name, p) == OccursAtIgnoreCase(name, p, 1)

\* C7 as stated: a declaration text has property P only when P is the whole
\* name of one of its declarations, letter case ignored; a longer name that
\* ends with, starts with or contains P never counts.
C7_HasOnlyWholeName ==
    ReturnedFrom("declsHasAnyProperty") =>
        (ret => \E name \in DeclaredNames(call.decls) :
                    toLowerCase(name) = call.propNames[1])

\* C7: a declaration text has property P exactly when one of its declarations
\* has a name that ends with P, letter case ignored, where P is either the
\* whole name or comes right after a character that is no letter, digit or
\* underscore (the hyphen of border-color), white space allowed before the
\* colon; a longer name that starts with P, or that has a letter, digit or
\* underscore right before P, never counts.
C7_HasIffNameEndsAtBoundary ==
    ReturnedFrom("declsHasAnyProperty") =>
        ret = (\E name \in DeclaredNames(call.decls) :
                   EndsWithAtBoundary(name, call.propNames[1]))

\* a text with a longer name that starts with P, which does not count, and a
\* longer name that ends with -P, which does
C7_Witness ==
    /\ ReturnedFrom("declsHasAnyProperty")
    /\ ret = TRUE
    /\ \A name \in DeclaredNames(call.decls) : Len(name) > Len(call.propNames[1])
    /\ \E name \in DeclaredNames(call.decls) : StartsWith(name, call.propNames[1])
    /\ \E name \in DeclaredNames(call.decls) : EndsWithAtBoundary(name, call.propNames[1])

BorderColorOnly == <<"b", "o", "r", "d", "e", "r", "-", "c", "o", "l", "o", "r", ":", " ", "r", "e", "d", ";">>

ColorfulBorderOnly == <<"c", "o", "l", "o", "r", "f", "u", "l", "-", "b", "o", "r", "d", "e", "r", ":", " ", "r", "e", "d">>

BackgroundColorCustomOnly == <<"b", "a", "c", "k", "g", "r", "o", "u", "n", "d", "-", "c", "o", "l", "o", "r", "-", "c", "u", "s", "t", "o", "m", ":", " ", "r", "e", "d", ";">>

\* C8: asked for color, a declaration text that is only "border-color: red;"
\* has it, and one that is only "colorful-border: red" or only
\* "background-color-custom: red;" has not.
C8_BorderColorCounts ==
    (ReturnedFrom("declsHasAnyProperty") /\ call.propNames = <<PropColor>>) =>
        /\ call.decls = BorderColorOnly => ret = TRUE
        /\ call.decls \in {ColorfulBorderOnly, BackgroundColorCustomOnly} => ret = FALSE
        /\ (/\ Cardinality(DeclaredNames(call.decls)) = 1
            /\ \E name \in DeclaredNames(call.decls) :
                   Len(name) > Len(PropColor) /\ StartsWith(name, PropColor)) => ret = FALSE

C8_Witness ==
    /\ ReturnedFrom("declsHasAnyProperty")
    /\ call.propNames = <<PropColor>>
    /\ call.decls = BorderColorOnly
    /\ ret = TRUE

\* s in lower case, each run of white space inside it one space, none at
\* its ends
Canonical(s) ==
    LET t == toLowerCase(s)
        kept == {i \in 1..Len(t) :
                    \/ t[i] \notin WsChars
                    \/ /\ i > 1
                       /\ t[i - 1] \notin WsChars
                       /\ \E j \in (i + 1)..Len(t) : t[j] \notin WsChars}
        at == SelectSeq([i \in 1..Len(t) |-> i], LAMBDA i : i \in kept)
    IN  [n \in 1..Len(at) |-> IF t[at[n]] \in WsChars THEN " " ELSE t[at[n]]]

IsBlank(s) == \A i \in 1..Len(s) : s[i] \in WsChars

\* one Rule for each piece that is not blank, in the order of the pieces
RECURSIVE RulesOfPieces(_, _)
RulesOfPieces(pieces, decl) ==
    IF Len(pieces) = 0 THEN <<>>
    ELSE (IF IsBlank(pieces[1]) THEN <<>>
          ELSE <<[selector |-> Canonical(pieces[1]), decls |-> Canonical(decl)]>>)
             \o RulesOfPieces(Tail(pieces), decl)

RECURSIVE RulesOfBlocks(_)
RulesOfBlocks(blocks) ==
    IF Len(blocks) = 0 THEN <<>>
    ELSE RulesOfPieces(blocks[1].sels, blocks[1].decl) \o RulesOfBlocks(Tail(blocks))

\* C9: for the blocks of a text in source order, parseCssRules emits one Rule
\* for each comma-separated selector piece that is not empty, in the order of
\* the pieces, the piece trimmed, in lower case and with its white space
\* collapsed as selector, and the block's declaration text normalized the same
\* way as declarations of each; no Rule has an empty selector, and the
\* declarations may be empty.
C9_OneRulePerPiece ==
    ReturnedFrom("parseCssRules") =>
        /\ ret = RulesOfBlocks(call.blocks)
        /\ \A n \in 1..Len(ret) : ret[n].selector # <<>>

\* a block with an empty piece between two others and no declarations,
\* followed by another block
C9_Witness ==
    /\ ReturnedFrom("parseCssRules")
    /\ Len(call.blocks) = 2
    /\ Len(call.blocks[1].sels) = 3
    /\ call.blocks[1].decl = <<>>
    /\ Len(ret) > 2
    /\ ret[1].decls = <<>>
    /\ ret[2].selector = <<"b">>

(***************************************************************************)
(* TODO 5 without !important                                               *)
(***************************************************************************)
\* the rules whose selector is exactly sel
RulesFor(rs, sel) == SelectSeq(rs, LAMBDA r : r.selector = sel)

\* some ";"-separated part of the text is a name, a colon and a value
DeclaresSomething(decls) ==
    LET parts == split(decls, ";")
    IN  \E n \in 1..Len(parts) :
            LET f == split(parts[n], ":")
            IN  Len(f) > 1 /\ trim(f[1]) # <<>> /\ trim(f[2]) # <<>>

\* a .important-test rule declares something and none holds "!important"
ImportantTestWithoutImportant(rs) ==
    LET mine == RulesFor(rs, SelImportantTest)
    IN  /\ \E n \in 1..Len(mine) : DeclaresSomething(mine[n].decls)
        /\ \A n \in 1..Len(mine) : ~includes(mine[n].decls, ImportantMarker)

OnlyImportantUnsatisfied(result) ==
    /\ result.id = "TODO 5"
    /\ result.total = 3
    /\ result.ok = 2
    /\ result.reqs[1].label = Exists(".important-test") /\ result.reqs[1].ok
    /\ result.reqs[2].label = Has(".important-test", "!important") /\ ~result.reqs[2].ok
    /\ result.reqs[3].label = Has(".important-test", "declared property")
    /\ result.reqs[3].ok

\* C11: when the stylesheet's .important-test rule declares something and its
\* declaration text nowhere holds "!important", as in
\* ".important-test { color: blue; }", TODO 5 reports "rule exists" and "at
\* least one declared property" satisfied and only "!important" unsatisfied.
C11_OnlyImportantMissing ==
    /\ (Graded /\ status # STATUS_MISSING /\ ImportantTestWithoutImportant(rules))
          => OnlyImportantUnsatisfied(taskResults[5])
    /\ (Graded /\ hasCss /\ cssCode = PieceImportantNo)
          => OnlyImportantUnsatisfied(taskResults[5])

\* the run that grades ".important-test { color: blue; }"
C11_Witness ==
    /\ pc = "done"
    /\ hasCss
    /\ cssCode = PieceImportantNo
    /\ ImportantTestWithoutImportant(rules)
    /\ taskResults[5].ok = 2
    /\ ~taskResults[5].reqs[2].ok

(***************************************************************************)
(* The commit that decides lateness                                        *)
(***************************************************************************)
\* the text the markers are looked for in: names, addresses and subject
CombinedText(c) ==
    toLowerCase(c.an \o <<" ">> \o c.ae \o <<" ">> \o c.cn \o <<" ">> \o c.ce
                \o <<" ">> \o c.subject)

\* a commit without any automation marker, that carries a time
Qualifies(c) ==
    /\ \A n \in 1..Len(BotMarkers) : ~includes(CombinedText(c), BotMarkers[n])
    /\ c.ct.finite

\* the positions, among the latest 300 commits, of the qualifying ones
QualifyingAt(lines) ==
    {i \in 1..Len(lines) : i <= 300 /\ Qualifies(lines[i])}

OnTime(seconds) == seconds <= DUE_EPOCH_SECONDS

C12_WitnessFallback ==
    /\ ReturnedFrom("wasSubmittedLate")
    /\ call.log.ok
    /\ Len(call.log.lines) = 301
    /\ QualifyingAt(call.log.lines) = {}
    /\ Qualifies(call.log.lines[301])
    /\ ret.used = TimeMs(DUE_EPOCH_SECONDS + 1, 0)

(***************************************************************************)
(* The grader of src/unnamed/part_000                                      *)
(***************************************************************************)
\* Date.parse("2025-08-09T23:59:00+03:00") / 1000
part000_DUE_EPOCH_SECONDS == 1754773140

\* getLatestCommitEpochMs: "git log -1 --format=%ct", the newest commit's
\* time, null when the command fails or prints no finite number; Number("")
\* of an empty output is 0
getLatestCommitEpochMs(log) ==
    IF ~log.ok THEN Null
    ELSE IF Len(log.lines) = 0 THEN TimeMs(0, 0)
    ELSE IF ~log.lines[1].ct.finite THEN Null
    ELSE TimeMs(log.lines[1].ct.v, 0)

part000_wasSubmittedLate(log) ==
    LET latestMs == getLatestCommitEpochMs(log)
    IN  IF ~Truthy(latestMs) THEN FALSE
        ELSE MsGreater(latestMs, TimeMs(part000_DUE_EPOCH_SECONDS, 0))

\* sel.trim().replace(/\s+/g, " ").replace(/\s*,\s*/g, ", "); the selectors
\* it is given hold no comma
part000_normalizeSelector(sel) == collapseWs(trim(sel))

\* the selectors of one block: the pieces normalized, the empty ones dropped
part000_selectors(selectorText) ==
    LET pieces == split(selectorText, ",")
    IN  SelectSeq([k \in 1..Len(pieces) |-> part000_normalizeSelector(pieces[k])],
                  LAMBDA x : x # <<>>)

\* The loop over ruleRegex = /([^{}]+)\{([^{}]*)\}/g from position start: a
\* brace-free run, "{", a brace-free body, "}".
RECURSIVE part000_ExecFrom(_, _)
part000_ExecFrom(css, start) ==
    LET i == NextNonBrace(css, start)
        j == NextBrace(css, i)
        k == NextBrace(css, j + 1)
    IN  IF i > Len(css) \/ j > Len(css) THEN <<>>
        ELSE IF css[j] = "}" THEN part000_ExecFrom(css, j + 1)
        ELSE IF k > Len(css) THEN <<>>
        ELSE IF css[k] = "{" THEN part000_ExecFrom(css, j + 1)
        ELSE <<[selectors |-> part000_selectors(SubSeq(css, i, j - 1)),
                body |-> SubSeq(css, j + 1, k - 1)]>>
                 \o part000_ExecFrom(css, k + 1)

part000_parseCssRules(cssText) == part000_ExecFrom(stripCssComments(cssText), 1)

\* new RegExp(`(^|[;\\s])${propName}\\s*:`, "i").test(body)
bodyHasProperty(body, propName) ==
    \E k \in 1..Len(body) :
        /\ k = 1 \/ body[k - 1] \in WsChars \cup {";"}
        /\ OccursAtIgnoreCase(body, propName, k)
        /\ LET c == SkipWs(body, k + Len(propName))
           IN  c <= Len(body) /\ body[c] = ":"

\* new RegExp(`${propName}\\s*:[^;]*!important`, "i").test(body)
bodyHasImportantForProperty(body, propName) ==
    \E k \in 1..Len(body) :
        /\ OccursAtIgnoreCase(body, propName, k)
        /\ LET c == SkipWs(body, k + Len(propName))
           IN  /\ c <= Len(body)
               /\ body[c] = ":"
               /\ \E m \in (c + 1)..Len(body) :
                      /\ OccursAtIgnoreCase(body, ImportantMarker, m)
                      /\ \A x \in (c + 1)..(m - 1) : body[x] # ";"

part000_findMatchingRules(rs, selectorQuery) ==
    LET q == part000_normalizeSelector(selectorQuery)
    IN  SelectSeq(rs, LAMBDA r : \E n \in 1..Len(r.selectors) : r.selectors[n] = q)

\* checkSelectorProperties without the texts of its missing list
checkSelectorProperties(rs, selectorQuery, props, requireImportantFor) ==
    LET matchedRules == part000_findMatchingRules(rs, selectorQuery)
        counted == {n \in 1..Len(props) :
                       /\ \E r \in 1..Len(matchedRules) :
                              bodyHasProperty(matchedRules[r].body, props[n])
                       /\ props[n] \in requireImportantFor =>
                              \E r \in 1..Len(matchedRules) :
                                  bodyHasImportantForProperty(matchedRules[r].body, props[n])}
    IN  IF Len(matchedRules) = 0
        THEN [foundRule |-> FALSE, presentCount |-> 0, totalCount |-> Len(props)]
        ELSE [foundRule |-> TRUE, presentCount |-> Cardinality(counted),
              totalCount |-> Len(props)]

RECURSIVE SumField(_, _, _)
SumField(checks, field, n) ==
    IF n = 0 THEN 0 ELSE SumField(checks, field, n - 1) + checks[n][field]

scoreFromChecks(checks, maxMarks) ==
    LET totalProps == SumField(checks, "totalCount", Len(checks))
        presentProps == SumField(checks, "presentCount", Len(checks))
    IN  IF totalProps = 0 THEN [earned |-> 0, presentProps |-> 0]
        ELSE [earned |-> MathRound(Frac(maxMarks * presentProps, totalProps)),
              presentProps |-> presentProps]

part000_TaskIds ==
    <<"TODO 1", "TODO 2", "TODO 3", "TODO 4", "TODO 5", "TODO 6", "TODO 7", "TODO 8 + 9">>

\* tasks[n].marks
part000_marks(n) == 10

Check(rs, sel, props) == checkSelectorProperties(rs, sel, props, {})

\* tasks[n].checks(), rs the rules
part000_checks(n, rs) ==
    CASE n = 1 -> <<Check(rs, SelP, <<PropColor, PropFontSize>>),
                    Check(rs, SelSpan, <<PropColor, PropFontSize>>)>>
      [] n = 2 -> <<Check(rs, SelUsername, <<PropColor, PropFontWeight>>),
                    Check(rs, SelBlueText, <<PropColor>>),
                    Check(rs, SelRedText, <<PropColor>>),
                    Check(rs, SelHighlight, <<PropBackgroundColor, PropPadding>>)>>
      [] n = 3 -> <<Check(rs, SelFeaturedUser, <<PropColor, PropFontSize>>)>>
      [] n = 4 -> <<Check(rs, SelP, <<PropColor>>),
                    Check(rs, SelWinner, <<PropColor>>),
                    Check(rs, SelSpecificityTest, <<PropColor>>),
                    Check(rs, SelPWinner, <<PropColor>>)>>
      [] n = 5 -> <<checkSelectorProperties(rs, SelImportantTest, <<PropColor>>,
                                            {PropColor})>>
      [] n = 6 -> <<Check(rs, SelChatContainer \o <<" ">> \o SelMessage, <<PropColor>>),
                    Check(rs, SelChatContainer \o <<" ">> \o SelMessageTime,
                          <<PropColor, PropFontSize>>)>>
      [] n = 7 -> <<Check(rs, sendHover, <<PropBackgroundColor, PropColor>>),
                    Check(rs, linkHover, <<PropColor, PropTextDecoration>>)>>
      [] n = 8 -> <<Check(rs, s4, <<PropColor, PropFontFamily>>),
                    Check(rs, s5, <<PropColor, PropFontFamily>>),
                    Check(rs, s6, <<PropColor, PropFontFamily>>),
                    Check(rs, SelStar, <<PropBoxSizing>>)>>

\* one element of tasks.map(...), with the properties it found
part000_taskResult(n, hasStyles, rs) ==
    LET score == scoreFromChecks(part000_checks(n, rs), part000_marks(n))
    IN  [id |-> part000_TaskIds[n],
         earned |-> IF hasStyles THEN score.earned ELSE 0,
         max |-> part000_marks(n),
         scored |-> score.earned,
         presentProps |-> score.presentProps]

RECURSIVE SumResults(_, _, _)
SumResults(results, field, n) ==
    IF n = 0 THEN 0 ELSE SumResults(results, field, n - 1) + results[n][field]

\* let status = late ? 1 : 0; if (hasStyles && presentPropsAcrossAll === 0) status = 2
part000_statusOf(hasStyles, presentPropsAcrossAll, isLate) ==
    IF hasStyles /\ presentPropsAcrossAll = 0 THEN 2
    ELSE IF isLate THEN 1
    ELSE 0

part000_submissionMarksOf(hasStyles, isLate) ==
    IF hasStyles THEN (IF isLate THEN 10 ELSE 20) ELSE 0

\* lines 124-139: whether styles.css exists, its text and its rules
LoadStyles ==
    /\ pc = "load"
    /\ \E exists \in BOOLEAN, text \in Stylesheets :
          /\ hasCss' = exists
          /\ cssCode' = IF exists THEN text ELSE <<>>
          /\ rules' = IF cssCode' # <<>> THEN part000_parseCssRules(cssCode') ELSE <<>>
    /\ pc' = "tasks"
    /\ UNCHANGED <<gitLog, cssEmpty, lateCommitMs, late, status, submissionMarks,
                   commitMs, commitIso, taskResults, earnedTodoMarks, totalEarned, csv,
                   call, ret>>

\* lines 221-251: grade the tasks; earnedTodoMarks is earnedTasks
GradeChecks ==
    /\ pc = "tasks"
    /\ taskResults' = [n \in 1..Len(part000_TaskIds) |-> part000_taskResult(n, hasCss, rules)]
    /\ earnedTodoMarks' = SumResults(taskResults', "earned", Len(taskResults'))
    /\ pc' = "submission"
    /\ UNCHANGED <<gitLog, hasCss, cssCode, cssEmpty, lateCommitMs, late, status,
                   submissionMarks, commitMs, commitIso, rules, totalEarned, csv,
                   call, ret>>

\* lines 253-269: status, submission marks and total
StatusAndTotal ==
    /\ pc = "submission"
    /\ lateCommitMs' = getLatestCommitEpochMs(gitLog)
    /\ late' = part000_wasSubmittedLate(gitLog)
    /\ status' = part000_statusOf(hasCss,
                                  SumResults(taskResults, "presentProps", Len(taskResults)),
                                  late')
    /\ submissionMarks' = part000_submissionMarksOf(hasCss, late')
    /\ totalEarned' = MathMin(earnedTodoMarks + submissionMarks', 100)
    /\ pc' = "summary"
    /\ UNCHANGED <<gitLog, hasCss, cssCode, cssEmpty, commitMs, commitIso, rules,
                   taskResults, earnedTodoMarks, csv, call, ret>>

\* lines 271-330: the summary and the row of grade.csv
WriteGrade ==
    /\ pc = "summary"
    /\ csv' = <<totalEarned, 100, status>>
    /\ pc' = "written"
    /\ UNCHANGED <<gitLog, hasCss, cssCode, cssEmpty, lateCommitMs, late, status,
                   submissionMarks, commitMs, commitIso, rules, taskResults,
                   earnedTodoMarks, totalEarned, call, ret>>

InitPart000 ==
    /\ pc = "load"
    /\ gitLog \in Histories
    /\ Fresh
    /\ call = NoCall
    /\ ret = NoValue

NextPart000 ==
    \/ LoadStyles
    \/ GradeChecks
    \/ StatusAndTotal
    \/ WriteGrade

SpecPart000 == InitPart000 /\ [][NextPart000]_vars

\* C14: in the grader of part_000 a run without styles.css reports status
\* MISSING (2), task marks 0, status component 0 and total 0, whatever the
\* time of the latest commit.
C14_NoStylesheetIsMissing ==
    (pc \in {"summary", "written"} /\ ~hasCss) =>
        /\ status = 2
        /\ earnedTodoMarks = 0
        /\ submissionMarks = 0
        /\ totalEarned = 0

\* what that grader does report without styles.css: marks of 0, and the
\* status of the commit time, 0 or 1, never 2
C14_NoStylesheetZeroMarks ==
    (pc \in {"summary", "written"} /\ ~hasCss) =>
        /\ status = (IF late THEN 1 ELSE 0)
        /\ earnedTodoMarks = 0
        /\ submissionMarks = 0
        /\ totalEarned = 0
        /\ pc = "written" => csv = <<0, 100, status>>

\* a finished run without styles.css and with a late commit
C14_Witness ==
    /\ pc = "written"
    /\ ~hasCss
    /\ late
    /\ status = 1
    /\ totalEarned = 0

IsBrace(c) == c \in {"{", "}"}

\* the first "}" after position j, or 0
ClosingOf(text, j) ==
    LET at == {k \in (j + 1)..Len(text) : text[k] = "}"}
    IN  IF at = {} THEN 0 ELSE Least(at)

\* Position j holds the "{" of a block: a character that is no brace stands
\* right before it, a "}" follows somewhere, and j does not lie inside a
\* block opened further left.
RECURSIVE OpensBlock(_, _)
OpensBlock(text, j) ==
    /\ text[j] = "{"
    /\ j > 1
    /\ ~IsBrace(text[j - 1])
    /\ ClosingOf(text, j) # 0
    /\ \A h \in 1..(j - 1) : OpensBlock(text, h) => ClosingOf(text, h) < j

\* the selector text of the block opened at j: the brace-free characters
\* right before j
SelectorTextAt(text, j) ==
    LET braces == {h \in 1..(j - 1) : IsBrace(text[h])}
        from == IF braces = {} THEN 1 ELSE (CHOOSE h \in braces : \A g \in braces : g <= h) + 1
    IN  SubSeq(text, from, j - 1)

\* the rules of the blocks opened at positions j..Len(text)
RECURSIVE RulesOfSpans(_, _)
RulesOfSpans(text, j) ==
    IF j > Len(text) THEN <<>>
    ELSE (IF OpensBlock(text, j)
          THEN RulesOfPieces(split(SelectorTextAt(text, j), ","),
                             SubSeq(text, j + 1, ClosingOf(text, j) - 1))
          ELSE <<>>)
             \o RulesOfSpans(text, j + 1)

\* C17: on every text, also one with unbalanced, stray, trailing or nested
\* braces, parseCssRules returns, and its rules are exactly those of the
\* spans selector-text "{" declaration-text "}" whose selector text holds no
\* brace and whose block ends at the first "}" after its "{"; braces and text
\* outside such spans give no rule.
C17_RulesOnlyFromSpans ==
    (call.fn = "parseCssRules twice" /\ pc \in {"again", "returned"}) =>
        /\ ret.first = RulesOfSpans(call.text, 1)
        /\ \A n \in 1..Len(ret.first) : ret.first[n].selector # <<>>
        /\ (\A j \in 1..Len(call.text) : ~OpensBlock(call.text, j)) => ret.first = <<>>

\* a text with a nested "{" and a stray "}": one rule, whose declarations
\* hold the inner "{"
C17_Witness ==
    /\ call.fn = "parseCssRules twice"
    /\ pc = "again"
    /\ call.text = <<"a", "{", "{", "}">>
    /\ ret.first = <<[selector |-> <<"a">>, decls |-> <<"{">>]>>

\* text with braces that never form a span gives no rule
C17_WitnessStray ==
    /\ call.fn = "parseCssRules twice"
    /\ pc = "again"
    /\ call.text = <<"a", "}", "{", "a">>
    /\ ret.first = <<>>

(***************************************************************************)
(* The ranges of the marks                                                 *)
(***************************************************************************)
\* C15: whatever requirements the tasks report, the TODO marks lie in 0..80
\* and the status component is 20, 10 or 0 for ON_TIME, LATE and MISSING, so
\* their sum is at most 100 and the total is that sum unclamped: 20..100 when
\* ON_TIME, 10..90 when LATE and 0 when MISSING.
C15_MarksInRange ==
    ReturnedFrom("grade tasks") =>
        /\ ret.earnedTodoMarks \in 0..80
        /\ ret.submissionMarks = (CASE call.status = STATUS_ON_TIME -> 20
                                    [] call.status = STATUS_LATE -> 10
                                    [] call.status = STATUS_MISSING -> 0)
        /\ ret.earnedTodoMarks + ret.submissionMarks <= 100
        /\ ret.totalEarned = ret.earnedTodoMarks + ret.submissionMarks
        /\ call.status = STATUS_ON_TIME => ret.totalEarned \in 20..100
        /\ call.status = STATUS_LATE => ret.totalEarned \in 10..90
        /\ call.status = STATUS_MISSING => ret.totalEarned = 0

\* every requirement of every task satisfied, on time: 80 + 20
C15_Witness ==
    /\ ReturnedFrom("grade tasks")
    /\ call.status = STATUS_ON_TIME
    /\ \A n \in 1..Len(TaskIds) : call.oks[n] = RequirementCount(n)
    /\ ret.earnedTodoMarks = 80
    /\ ret.totalEarned = 100

\* the same ranges in the grading runs
C15_MarksInRangeOfRuns ==
    Graded =>
        /\ earnedTodoMarks \in 0..80
        /\ totalEarned = earnedTodoMarks + submissionMarks
        /\ status = STATUS_ON_TIME => submissionMarks = 20 /\ totalEarned \in 20..100
        /\ status = STATUS_LATE => submissionMarks = 10 /\ totalEarned \in 10..90
        /\ status = STATUS_MISSING => submissionMarks = 0 /\ totalEarned = 0

(***************************************************************************)
(* A history that changes while the script runs                            *)
(***************************************************************************)
\* The script runs "git log" at line 326 (inside wasSubmittedLate, line 119)
\* and again at line 334; nothing keeps the repository from receiving a commit
\* between the two.  CommitLands is that commit: a new first line of the log.
CommitLands ==
    /\ pc \in {"locate", "status", "commit", "grade", "write"}
    /\ gitLog.ok
    /\ Len(gitLog.lines) <= MaxCommits
    /\ \E c \in Commits : gitLog' = GitLog(<<c>> \o gitLog.lines)
    /\ UNCHANGED <<pc, hasCss, cssCode, cssEmpty, lateCommitMs, late, status,
                   submissionMarks, commitMs, commitIso, rules, taskResults,
                   earnedTodoMarks, totalEarned, csv, call, ret>>

NextWhileCommitsLand ==
    \/ Locate
    \/ SubmissionStatus
    \/ CommitTime
    \/ GradeTasks
    \/ WriteOutputs
    \/ CommitLands

SpecWhileCommitsLand == Init /\ [][NextWhileCommitsLand]_vars

\* C16: in every run, also one during which the history changes, the commit
\* time that decided between ON_TIME and LATE (the one wasSubmittedLate
\* compared with the deadline) is the commit time the feedback shows.
C16_DecidingTimeIsShownTime ==
    pc \in {"grade", "write", "done"} => commitMs = lateCommitMs

\* C16, while the history stands still: the two queries return the same time
C16_SameTimeInQuietRuns ==
    pc = "done" => commitIso = commitIsoOf(lateCommitMs)

\* C16: a finished run graded ON_TIME from a commit before the deadline whose
\* feedback shows a commit after the deadline, landed between the two queries
C16_Witness ==
    /\ pc = "done"
    /\ status = STATUS_ON_TIME
    /\ ~late
    /\ Truthy(lateCommitMs)
    /\ Truthy(commitMs)
    /\ MsGreater(commitMs, DUE_EPOCH_MS)
    /\ commitIso = commitIsoOf(commitMs)
    /\ commitMs # lateCommitMs

(***************************************************************************)
(* The order of the requirements of a task                                 *)
(***************************************************************************)
\* the labels of a requirement sequence, in its order
LabelsOf(reqs) == [k \in 1..Len(reqs) |-> reqs[k].label]

\* the tasks whose builders ran: the run came to grading with a stylesheet
BuildersRan == Graded /\ status # STATUS_MISSING

\* C18 as stated: in every task's requirement sequence no "selector X exists"
\* requirement comes after a "selector has property" requirement.
C18_NoExistsAfterAnyHas ==
    BuildersRan =>
        \A n \in 1..Len(taskResults) :
            \A i, j \in 1..Len(taskResults[n].reqs) :
                (/\ taskResults[n].reqs[i].label.kind = "has"
                 /\ taskResults[n].reqs[j].label.kind = "exists") => j < i

\* C18, amended: the requirement sequence of every task has the same labels in
\* the same order whatever the stylesheet (those the builder gives for no rule
\* at all), and in it the "selector X exists" requirement precedes every
\* "selector X has property" requirement of the same selector X.
C18_FixedOrderExistsFirstPerSelector ==
    BuildersRan =>
        \A n \in 1..Len(taskResults) :
            /\ LabelsOf(taskResults[n].reqs) = LabelsOf(requirements(n, <<>>))
            /\ \A i, j \in 1..Len(taskResults[n].reqs) :
                   (/\ taskResults[n].reqs[i].label.kind = "has"
                    /\ taskResults[n].reqs[j].label.kind = "exists"
                    /\ taskResults[n].reqs[i].label.sel = taskResults[n].reqs[j].label.sel)
                   => j < i

\* C18: a graded stylesheet with rules, where TODO 1 lists "span exists" fourth,
\* after the satisfied property checks of p, and TODO 3 lists its existence
\* check first
C18_Witness ==
    /\ BuildersRan
    /\ Len(rules) > 0
    /\ taskResults[1].reqs[2].label = Has("p", "color")
    /\ taskResults[1].reqs[2].ok
    /\ taskResults[1].reqs[4].label = Exists("span")
    /\ taskResults[3].reqs[1].label = Exists("#featured-user")
    /\ taskResults[3].reqs[2].label.kind = "has"

(***************************************************************************)
(* A credited property belongs to a selector that exists                   *)
(***************************************************************************)
\* the tasks with a per-selector existence requirement: TODO 1, 2, 3, 5, 6, 7, 9
TasksWithExistence == {1, 2, 3, 5, 6, 7, 9}

\* the positions in a task's requirements of "selector sel exists"
ExistenceOf(reqs, sel) ==
    {j \in 1..Len(reqs) : reqs[j].label.kind = "exists" /\ reqs[j].label.sel = sel}

\* C19: in the tasks with a per-selector existence requirement, every
\* "selector X has Y" requirement has a "selector X exists" requirement in the
\* same task, and whenever the former is satisfied the latter is satisfied.
C19_HasImpliesExists ==
    BuildersRan =>
        \A n \in TasksWithExistence :
            \A i \in 1..Len(taskResults[n].reqs) :
                LET r == taskResults[n].reqs[i]
                IN  r.label.kind = "has" =>
                        /\ ExistenceOf(taskResults[n].reqs, r.label.sel) # {}
                        /\ r.ok => \A j \in ExistenceOf(taskResults[n].reqs, r.label.sel) :
                                       taskResults[n].reqs[j].ok

\* C19: a graded stylesheet in which one task has a satisfied property with
\* its selector present, another has a selector present without the property,
\* and a third has neither the selector nor the property although other
\* selectors of the stylesheet declare it
C19_Witness ==
    /\ BuildersRan
    /\ \E n \in TasksWithExistence : \E i, j \in 1..Len(taskResults[n].reqs) :
           /\ taskResults[n].reqs[i].label.kind = "has"
           /\ j \in ExistenceOf(taskResults[n].reqs, taskResults[n].reqs[i].label.sel)
           /\ taskResults[n].reqs[i].ok
           /\ taskResults[n].reqs[j].ok
    /\ \E n \in TasksWithExistence : \E i, j \in 1..Len(taskResults[n].reqs) :
           /\ taskResults[n].reqs[i].label.kind = "has"
           /\ j \in ExistenceOf(taskResults[n].reqs, taskResults[n].reqs[i].label.sel)
           /\ ~taskResults[n].reqs[i].ok
           /\ taskResults[n].reqs[j].ok
    /\ \E n \in TasksWithExistence : \E i, j \in 1..Len(taskResults[n].reqs) :
           /\ taskResults[n].reqs[i].label = Has("#featured-user", "color")
           /\ j \in ExistenceOf(taskResults[n].reqs, "#featured-user")
           /\ ~taskResults[n].reqs[i].ok
           /\ ~taskResults[n].reqs[j].ok
           /\ \E k \in 1..Len(rules) : declsHasAnyProperty(rules[k].decls, RELATED.color)

====
